---- MODULE Spec2Model ----
(***************************************************************************)
(* Model of the waveform viewer: the session reducer (useWaveformReducer), *)
(* the playback clock (useAudioService) and the host component             *)
(* (WaveformViewer) that wires them together.                              *)
(*                                                                         *)
(* Time is counted in whole ticks of the hardware audio clock.  Handlers   *)
(* of discrete user events run together with the re-render and the effects *)
(* they cause; dispatches made from frame callbacks, ended notifications   *)
(* and promise continuations leave the effects to a later Commit step.     *)
(* Completions of close(), decodeAudioData, parseWavFile, animation frames *)
(* and ended events are tasks of different sources and run in any order.   *)
(* A pending render and a queued ended event run before the next user      *)
(* event is handled and before the hardware clock advances (Quiet).        *)
(***************************************************************************)
EXTENDS Integers, Sequences, FiniteSets, TLC

\* ------------------------------------------------------------ bounds
MaxDecode == 1       \* ticks a context's clock can run before its decode settles
MaxOverrun == 1      \* ticks a context's clock is followed past the end of a voice
NFiles == 1          \* distinct files the user can load
NVoices == 3         \* buffer-source nodes alive at once
NCtx == 2            \* audio contexts alive at once
NFrames == 2         \* animation-frame requests alive at once
NInits == 2          \* initialize() calls pending at once
MaxTime == 2         \* tag marker times dispatched to the reducer: 0..MaxTime
MaxPos == 1          \* positions dispatched to the reducer: 0..MaxPos
MaxTags == 2         \* tags in the tag list
MaxWidth == 1        \* screen widths dispatched to the reducer: 1..MaxWidth
TrackLen == 3        \* duration of the track the clock is driven with on its own
MaxCalls == 5        \* calls made to the clock when it is driven on its own
MaxFrames == 2       \* frames in a well-formed file given to the decoder
MaxSamples == 15     \* samples in a sequence given to the envelope
MaxColumns == 16     \* display width given to the envelope
MaxSeconds == 61     \* seconds of a recording whose display width is computed
MaxAvail == 4        \* available pixels of a viewport whose display width is computed
MaxExportTime == 5   \* latest time of a tag that is exported
MaxExportTags == 2   \* tags in a list that is exported
NTracks == 2         \* tracks (durations 1..NTracks) loaded one over the other
MaxEvents == 6       \* user events handled when tracks are loaded one over the other
MaxFairEvents == 4   \* user events handled where promises, frames and events are scheduled fairly

Files == 1..NFiles
VoiceIds == 1..NVoices
CtxIds == 1..NCtx
FrameIds == 1..NFrames
InitIds == 1..NInits

\* duration (in ticks) of the AudioData parsed from file f
Duration(f) == f
\* how far the clock of one context is followed
MaxNow == MaxDecode + Duration(NFiles) + MaxOverrun

Min(a, b) == IF a < b THEN a ELSE b
Max(a, b) == IF a > b THEN a ELSE b

VARIABLES state, clock, hw, host, obs
vars == <<state, clock, hw, host, obs>>

\* ------------------------------------------------------------ session reducer
\* audioData / fileName: 0 is null / "", f > 0 is the data parsed from file f.
\* pendingTagStart: <<>> is null, <<t>> is the marker t.
initialState ==
  [audioData |-> 0, fileName |-> 0, loading |-> FALSE, screenWidth |-> 0,
   isPlaying |-> FALSE, currentTime |-> 0, startPosition |-> 0,
   isDragging |-> FALSE, tags |-> <<>>, pendingTagStart |-> <<>>]

\* (removes the last tag whatever the index)
RemoveAtLast(s, i) == IF i \in 1..Len(s) THEN SubSeq(s, 1, Len(s) - 1) ELSE s
RemoveAt(s, i) == [k \in 1..(Len(s) - (IF i \in 1..Len(s) THEN 1 ELSE 0)) |->
                     IF i \in 1..Len(s) /\ k >= i THEN s[k + 1] ELSE s[k]]

\* (puts the completed tag in front of the list)
ToggleTagPrepend(st, t) ==
  IF st.pendingTagStart = <<>>
  THEN [st EXCEPT !.pendingTagStart = <<t>>]
  ELSE IF t > st.pendingTagStart[1]
       THEN [st EXCEPT !.tags = <<<<st.pendingTagStart[1], t>>>> \o @,
                       !.pendingTagStart = <<>>]
       ELSE [st EXCEPT !.pendingTagStart = <<>>]
\* (completes a tag also when the end equals the start)
ToggleTagInclusive(st, t) ==
  IF st.pendingTagStart = <<>>
  THEN [st EXCEPT !.pendingTagStart = <<t>>]
  ELSE IF t >= st.pendingTagStart[1]
       THEN [st EXCEPT !.tags = Append(@, <<st.pendingTagStart[1], t>>),
                       !.pendingTagStart = <<>>]
       ELSE [st EXCEPT !.pendingTagStart = <<>>]
\* (completes a tag whatever the order of its ends)
ToggleTagUnordered(st, t) ==
  IF st.pendingTagStart = <<>>
  THEN [st EXCEPT !.pendingTagStart = <<t>>]
  ELSE [st EXCEPT !.tags = Append(@, <<st.pendingTagStart[1], t>>),
                  !.pendingTagStart = <<>>]
ToggleTag(st, t) ==
  IF st.pendingTagStart = <<>>
  THEN [st EXCEPT !.pendingTagStart = <<t>>]
  ELSE IF t > st.pendingTagStart[1]
       THEN [st EXCEPT !.tags = Append(@, <<st.pendingTagStart[1], t>>),
                       !.pendingTagStart = <<>>]
       ELSE [st EXCEPT !.pendingTagStart = <<>>]

\* (keeps the tags and the play state of the previous file)
FileLoadSuccessKeeps(st, data, name) ==
  [st EXCEPT !.audioData = data, !.fileName = name, !.loading = FALSE,
             !.currentTime = 0, !.startPosition = 0, !.pendingTagStart = <<>>]
FileLoadSuccess(st, data, name) ==
  [st EXCEPT !.audioData = data, !.fileName = name,
             !.loading = FALSE, !.currentTime = 0, !.startPosition = 0,
             !.isPlaying = FALSE, !.tags = <<>>, !.pendingTagStart = <<>>]

\* (drops the installed audio)
FileLoadErrorDrops(st) == [st EXCEPT !.loading = FALSE, !.audioData = 0, !.fileName = 0]
FileLoadError(st) == [st EXCEPT !.loading = FALSE]

\* (moves the start position along with the playhead)
DragMoveStart(st, time) ==
  [st EXCEPT !.currentTime = time, !.isDragging = TRUE, !.startPosition = time]
DragMove(st, time) == [st EXCEPT !.currentTime = time, !.isDragging = TRUE]

waveformReducer(st, a) ==
  CASE a.type = "FILE_LOAD_START" -> [st EXCEPT !.loading = TRUE]
    [] a.type = "FILE_LOAD_SUCCESS" -> FileLoadSuccess(st, a.audioData, a.fileName)
    [] a.type = "FILE_LOAD_ERROR" -> FileLoadError(st)
    [] a.type = "PLAY" -> [st EXCEPT !.isPlaying = TRUE]
    [] a.type = "PAUSE" -> [st EXCEPT !.isPlaying = FALSE]
    [] a.type = "SEEK" -> [st EXCEPT !.currentTime = a.time]
    [] a.type = "SET_START_POSITION" -> [st EXCEPT !.startPosition = a.position]
    [] a.type = "DRAG_START" -> [st EXCEPT !.isDragging = TRUE]
    [] a.type = "DRAG_MOVE" -> DragMove(st, a.time)
    [] a.type = "DRAG_END" -> [st EXCEPT !.isDragging = FALSE]
    [] a.type = "TIME_UPDATE" -> [st EXCEPT !.currentTime = a.time]
    [] a.type = "TOGGLE_TAG" -> ToggleTag(st, a.currentTime)
    [] a.type = "REMOVE_TAG" -> [st EXCEPT !.tags = RemoveAt(@, a.index + 1)]
    [] a.type = "CLEAR_PENDING_TAG" -> [st EXCEPT !.pendingTagStart = <<>>]
    [] a.type = "RESIZE" -> [st EXCEPT !.screenWidth = a.screenWidth]
    [] OTHER -> st

\* ------------------------------------------------------------ the world
\* Handlers are sequential code over the session, the clock's refs, the
\* platform objects and the host's bookkeeping; they are written as functions
\* from world to world.  over is raised when a handler needs a platform
\* object and the model has none left; such a step is not taken.
\* callbacks of a render in which state.audioData = data and state.isPlaying = p
Callbacks(data, p) == [data |-> data, isPlaying |-> p]
NoCallbacks == Callbacks(0, FALSE)

\* platform objects.  A voice is an AudioBufferSourceNode that was started:
\* playing, then ended (its ended event is queued), then done (delivered).
\* cause and nEnded are history: why it stopped and how often completion was
\* reported for it.
FreeVoice == [st |-> "free", ctx |-> 0, endAt |-> 0, data |-> 0, cb |-> NoCallbacks,
              cause |-> "none", nEnded |-> 0]
\* a voice that stopped playing: its context and end time no longer matter
Finished(vr, cause) == [vr EXCEPT !.st = "ended", !.cause = cause, !.ctx = 0, !.endAt = 0]
FreeFrame == [st |-> "free", cb |-> NoCallbacks]
FreeInit == [pc |-> "idle", data |-> 0, startPosition |-> 0, isPlaying |-> FALSE,
             isDragging |-> FALSE, ctx |-> 0]

\* obs is history.  It describes the step just taken: the voice started, the
\* voice completion was reported for, whether the poll loop delivered a
\* position (polled) and did so for a session that was paused or dragging
\* (late), how a delivered position compares with the one delivered before it
\* (order), whether initialize failed and in which await, whether an open
\* context was abandoned, and the retained position and start reading found
\* by a play called with a position at or past the duration (noop), whether
\* pause delivered a position for a voice that was no longer sounding (stale),
\* and whether a promise nobody awaits was rejected (rejected).  last is kept
\* across steps: the last position
\* delivered for the voice of sourceNodeRef since it started or the position
\* was last sought.
NoObs == [started |-> 0, reported |-> 0, polled |-> FALSE, late |-> FALSE,
          order |-> "none", failed |-> "no", leaked |-> FALSE, noop |-> <<>>,
          stale |-> FALSE, rejected |-> FALSE, last |-> <<>>]
\* A voice whose ended event was delivered in the previous step is forgotten.
Sweep(h) == [h EXCEPT !.voice = [v \in DOMAIN @ |-> IF @[v].st = "done" THEN FreeVoice ELSE @[v]]]
World == [s |-> state, c |-> clock, h |-> Sweep(hw), r |-> host,
          o |-> [NoObs EXCEPT !.last = IF clock.sourceNodeRef # 0 THEN obs.last ELSE <<>>],
          over |-> FALSE]

dispatch(w, a) == [w EXCEPT !.s = waveformReducer(@, a)]

Lowest(S) == CHOOSE x \in S : \A y \in S : x <= y

\* ------------------------------------------------------------ platform
\* A context is running, then closing (close() was called), then closed.
\* Closed contexts are all alike: audioContextRef names one as ClosedCtx.
ClosedCtx == NCtx + 1

\* audioContextRef.current.currentTime: the clock of a context starts at 0
\* when the context is created
\* (a clock that runs backwards, from MaxNow down)
currentTimeBackwards(w) ==
  IF w.c.audioContextRef \in CtxIds THEN MaxNow - w.h.ctx[w.c.audioContextRef].t ELSE 0
currentTime(w) == IF w.c.audioContextRef \in CtxIds THEN w.h.ctx[w.c.audioContextRef].t ELSE 0

CtxLive(w, c) == c \in CtxIds /\ w.h.ctx[c].st \in {"running", "closing"}
Sounding(w, v) == w.h.voice[v].st = "playing" /\ CtxLive(w, w.h.voice[v].ctx)

\* AudioBufferSourceNode.stop(): a playing node stops and queues its ended event.
stop(w, v) ==
  IF w.h.voice[v].st = "playing"
  THEN [w EXCEPT !.h.voice[v] = Finished(@, "stopped")]
  ELSE w

cancelAnimationFrame(w, id) ==
  IF id # 0 THEN [w EXCEPT !.h.frame[id] = FreeFrame] ELSE w

FreeFrames(w) == {i \in FrameIds : w.h.frame[i].st = "free"}

\* animationFrameRef.current = requestAnimationFrame(updatePlayhead)
requestAnimationFrame(w, cb) ==
  IF FreeFrames(w) = {} THEN [w EXCEPT !.over = TRUE]
  ELSE LET id == Lowest(FreeFrames(w))
       IN [w EXCEPT !.h.frame[id] = [st |-> "pending", cb |-> cb],
                    !.c.animationFrameRef = id]

\* a voice slot can be reused once its ended event was delivered and nothing
\* names it any more
FreeVoices(w) ==
  {v \in VoiceIds : w.h.voice[v].st \in {"free", "done"} /\ w.c.sourceNodeRef # v}

FreeCtx == [st |-> "free", t |-> 0]
FreeCtxs(w) == {c \in CtxIds : w.h.ctx[c].st = "free"}

\* ------------------------------------------------------------ callbacks (host)
onTimeUpdate(w, time) ==
  [dispatch(w, [type |-> "TIME_UPDATE", time |-> time])
     EXCEPT !.o.last = <<time>>,
            !.o.order = IF w.o.last = <<>> \/ @ = "regress" THEN @
                        ELSE IF time < w.o.last[1] THEN "regress"
                        ELSE IF time > w.o.last[1] THEN "rising"
                        ELSE IF @ = "none" THEN "same" ELSE @]

\* v: the voice the completion is reported for (history only)
onEnded(w, cb, v) ==
  LET w1 == dispatch(w, [type |-> "PAUSE"])
      w2 == IF cb.data # 0 /\ cb.isPlaying
            THEN dispatch(w1, [type |-> "TIME_UPDATE", time |-> Duration(cb.data)])
            ELSE w1
  IN [w2 EXCEPT !.o.reported = v,
                !.h.voice = IF v # 0 THEN [@ EXCEPT ![v].nEnded = Min(@ + 1, 2)] ELSE @]

\* ------------------------------------------------------------ playback clock
PollGuardFails(w) ==
  \/ ~w.c.isPlayingRef \/ w.c.isDraggingRef \/ w.c.audioContextRef = 0
  \/ w.c.currentAudioDataRef = 0 \/ w.c.sourceNodeRef = 0

\* (a cancel that forgets the id and leaves the frame pending)
ForgetFrameRef(w) == [w EXCEPT !.c.animationFrameRef = 0]

CancelFrameRef(w) ==
  IF w.c.animationFrameRef # 0
  THEN [cancelAnimationFrame(w, w.c.animationFrameRef) EXCEPT !.c.animationFrameRef = 0]
  ELSE w

startPlayheadUpdate(w, cb) ==
  LET w1 == CancelFrameRef(w)
  IN IF PollGuardFails(w1) THEN w1
     ELSE requestAnimationFrame(w1, cb)

\* the frame callback; id is the frame that fires.  The playback whose end it
\* reports is the one of sourceNodeRef.
updatePlayhead(w, id) ==
  LET cb == w.h.frame[id].cb
      v == w.c.sourceNodeRef
      w0 == [w EXCEPT !.h.frame[id] = FreeFrame]
  IN IF PollGuardFails(w0) THEN CancelFrameRef(w0)
     ELSE LET sessionElapsed == currentTime(w0) - w0.c.startTimeRef
              totalTime == w0.c.pausedAtRef + sessionElapsed
              newTime == Min(totalTime, Duration(w0.c.currentAudioDataRef))
              w1 == [onTimeUpdate(w0, newTime) EXCEPT
                       !.o.polled = TRUE,
                       !.o.late = ~w0.s.isPlaying \/ w0.s.isDragging]
          IN IF newTime < Duration(w0.c.currentAudioDataRef)
             THEN requestAnimationFrame(w1, cb)
             ELSE onEnded([w1 EXCEPT !.c.animationFrameRef = 0], cb, v)

\* (a pause that forgets the position the voice was started at)
pauseFromZero(w) ==
  LET w1 == IF w.c.sourceNodeRef # 0 /\ w.c.audioContextRef # 0
            THEN LET newPausedTime == currentTime(w) - w.c.startTimeRef
                     a == [w EXCEPT !.c.pausedAtRef = newPausedTime]
                     b == IF a.c.currentAudioDataRef # 0
                          THEN onTimeUpdate(a, Min(newPausedTime, Duration(a.c.currentAudioDataRef)))
                          ELSE a
                 IN [stop(b, b.c.sourceNodeRef) EXCEPT !.c.sourceNodeRef = 0]
            ELSE w
  IN CancelFrameRef(w1)

pause(w) ==
  LET w1 == IF w.c.sourceNodeRef # 0 /\ w.c.audioContextRef # 0
            THEN LET sessionElapsed == currentTime(w) - w.c.startTimeRef
                     newPausedTime == w.c.pausedAtRef + sessionElapsed
                     a == [w EXCEPT !.c.pausedAtRef = newPausedTime]
                     b == IF a.c.currentAudioDataRef # 0
                          THEN [onTimeUpdate(a, Min(newPausedTime, Duration(a.c.currentAudioDataRef)))
                                  EXCEPT !.o.stale = ~Sounding(w, w.c.sourceNodeRef)]
                          ELSE a
                 IN [stop(b, b.c.sourceNodeRef) EXCEPT !.c.sourceNodeRef = 0]
            ELSE w
  IN CancelFrameRef(w1)

\* (a seek that also stops the poll loop)
seekCancels(w, time) ==
  [CancelFrameRef(w) EXCEPT !.c.pausedAtRef = time, !.o.last = <<>>]

seek(w, time) ==
  [w EXCEPT !.c.pausedAtRef = time, !.o.last = <<>>]

\* cleanup leaves every ref as it is.  The promise of close() is dropped:
\* close() on a context that is already closing rejects it.
cleanup(w) ==
  LET c == w.c.audioContextRef
      w1 == IF w.c.sourceNodeRef # 0 THEN stop(w, w.c.sourceNodeRef) ELSE w
      w2 == IF c # 0 /\ c # ClosedCtx
            THEN IF w1.h.ctx[c].st = "closing" THEN [w1 EXCEPT !.o.rejected = TRUE]
                 ELSE [w1 EXCEPT !.h.ctx[c].st = "closing"]
            ELSE w1
  IN cancelAnimationFrame(w2, w2.c.animationFrameRef)

\* the effects on the props isPlaying and isDragging: the refs follow them,
\* and a pending frame is cancelled when paused or dragging
propsEffects(w, isPlaying, isDragging) ==
  LET w1 == [w EXCEPT !.c.isPlayingRef = isPlaying, !.c.isDraggingRef = isDragging]
  IN IF ~isPlaying \/ isDragging THEN CancelFrameRef(w1) ELSE w1

\* source.onended of voice v
sourceEnded(w, v) ==
  LET vr == w.h.voice[v]
      w1 == [CancelFrameRef(w) EXCEPT !.c.sourceNodeRef = 0]
  IN IF w1.c.isPlayingRef /\ ~w1.c.isDraggingRef
     THEN onEnded([w1 EXCEPT !.c.pausedAtRef = Duration(vr.data)], vr.cb, v)
     ELSE w1

StopSourceRef(w) ==
  IF w.c.sourceNodeRef # 0
  THEN [stop(w, w.c.sourceNodeRef) EXCEPT !.c.sourceNodeRef = 0]
  ELSE w

\* (a remainder that is still positive at the very end of the track)
remainingDurationInclusive(audioData, startOffset) == Duration(audioData) - startOffset + 1
remainingDuration(audioData, startOffset) == Duration(audioData) - startOffset

play(w, audioData, startTime, cb) ==
  IF w.c.audioContextRef = 0 \/ w.c.audioBufferRef = 0 THEN w
  ELSE LET w0 == IF startTime >= Duration(audioData)
                 THEN [w EXCEPT !.o.noop = <<w.c.pausedAtRef, w.c.startTimeRef>>]
                 ELSE w
           w1 == CancelFrameRef(StopSourceRef(w0))
           startOffset == Max(0, startTime)
       IN IF remainingDuration(audioData, startOffset) > 0
          THEN IF FreeVoices(w1) = {} THEN [w1 EXCEPT !.over = TRUE]
               ELSE LET v == Lowest(FreeVoices(w1))
                        w2 == [w1 EXCEPT
                                 !.c.currentAudioDataRef = audioData,
                                 !.c.pausedAtRef = startTime,
                                 !.h.voice[v] =
                                    [st |-> "playing", ctx |-> w1.c.audioContextRef,
                                     endAt |-> currentTime(w1)
                                               + Max(0, Duration(w1.c.audioBufferRef) - startOffset),
                                     data |-> audioData, cb |-> cb, cause |-> "none",
                                     nEnded |-> 0],
                                 !.c.startTimeRef = currentTime(w1),
                                 !.c.sourceNodeRef = v,
                                 !.o.started = v, !.o.last = <<>>]
                    IN startPlayheadUpdate(w2, cb)
          ELSE w1

\* ------------------------------------------------------------ initialize
FreeInits(w) == {i \in InitIds : w.r.init[i].pc = "idle"}

\* catch (error) { isInitializedRef.current = false; throw ... }; the host's
\* .catch logs it
initializeFailed(w, i, await) ==
  [w EXCEPT !.c.isInitializedRef = FALSE, !.r.init[i] = FreeInit, !.o.failed = await]

\* new AudioContext(); await audioContext.decodeAudioData(...)
initializeCreate(w, i) ==
  IF FreeCtxs(w) = {} THEN [w EXCEPT !.over = TRUE]
  ELSE LET n == Lowest(FreeCtxs(w))
       IN [w EXCEPT !.h.ctx[n] = [st |-> "running", t |-> 0], !.r.init[i].pc = "decoding",
                    !.r.init[i].ctx = n]

\* the synchronous part of initialize, called by the play/pause effect of a
\* render whose state is s: up to its first await.  close() on a context that
\* is already closing rejects.
initialize(w, s) ==
  IF FreeInits(w) = {} THEN [w EXCEPT !.over = TRUE]
  ELSE LET i == Lowest(FreeInits(w))
           c == w.c.audioContextRef
           w0 == [w EXCEPT !.r.init[i] =
                     [pc |-> "start", data |-> s.audioData, startPosition |-> s.startPosition,
                      isPlaying |-> s.isPlaying, isDragging |-> s.isDragging, ctx |-> 0]]
       IN IF c # 0 /\ c # ClosedCtx
          THEN LET w1 == StopSourceRef(w0)
               IN IF w1.h.ctx[c].st = "closing" THEN initializeFailed(w1, i, "close")
                  ELSE [w1 EXCEPT !.h.ctx[c].st = "closing", !.r.init[i].pc = "closing",
                                  !.r.init[i].ctx = c]
          ELSE initializeCreate(w0, i)

\* context c, which was closing, is closed: its voices fall silent for good
closed(w, c) ==
  [w EXCEPT !.h.ctx[c] = FreeCtx,
            !.c.audioContextRef = IF @ = c THEN ClosedCtx ELSE @,
            !.h.voice = [v \in VoiceIds |->
                           IF @[v].st = "playing" /\ @[v].ctx = c
                           THEN [Finished(@[v], "closed") EXCEPT !.st = "done"]
                           ELSE @[v]]]

\* the close() awaited by pending initialize i completes, and initialize
\* goes on
closeDone(w, i) == initializeCreate(closed(w, w.r.init[i].ctx), i)

\* decodeAudioData of pending initialize i settles; on success the refs are
\* installed and the host's .then continuation runs with the state captured
\* by the effect that called initialize
decodeDone(w, i, ok) ==
  LET r == w.r.init[i]
  IN IF ok
     THEN LET w1 == [w EXCEPT !.c.audioContextRef = r.ctx, !.c.audioBufferRef = r.data,
                              !.c.isInitializedRef = TRUE, !.r.init[i] = FreeInit]
          IN IF r.isPlaying /\ ~r.isDragging
             THEN play(w1, r.data, r.startPosition, Callbacks(r.data, r.isPlaying))
             ELSE w1
     ELSE initializeFailed(w, i, "decode")

\* ------------------------------------------------------------ host effects
DepsOf(s) == [isPlaying |-> s.isPlaying, isDragging |-> s.isDragging,
              audioData |-> s.audioData, startPosition |-> s.startPosition]

Clean(w) == w.r.deps = DepsOf(w.s) /\ ~w.r.audioChanged

\* Queued one-shot tasks (a pending render, a queued ended event) run before
\* the next user event is handled and before the hardware clock advances by a
\* whole tick.
Quiet(w) == Clean(w) /\ \A v \in VoiceIds : w.h.voice[v].st # "ended"

playPauseEffect(w, s) ==
  IF s.audioData = 0 THEN w
  ELSE IF s.isPlaying /\ ~s.isDragging THEN initialize(w, s)
  ELSE IF ~s.isPlaying THEN pause(w)
  ELSE w

\* the effects of the render of state w.s, in declaration order: the clock's
\* ref sync and frame cancel, then the host's play/pause effect; each runs
\* only when one of its dependencies changed
runEffects(w) ==
  LET s == w.s
      d == w.r.deps
      pd == d.isPlaying # s.isPlaying \/ d.isDragging # s.isDragging
      pp == pd \/ w.r.audioChanged \/ d.startPosition # s.startPosition
      w1 == IF pd THEN [w EXCEPT !.c.isPlayingRef = s.isPlaying,
                                 !.c.isDraggingRef = s.isDragging]
            ELSE w
      w2 == IF pd /\ (~s.isPlaying \/ s.isDragging) THEN CancelFrameRef(w1) ELSE w1
      w3 == IF pp THEN playPauseEffect(w2, s) ELSE w2
  IN [w3 EXCEPT !.r.deps = DepsOf(s), !.r.audioChanged = FALSE]

\* ------------------------------------------------------------ host handlers
handlePlayPause(w) ==
  LET s == w.s
  IN IF s.audioData = 0 THEN w
     ELSE IF s.isPlaying
     THEN dispatch(dispatch(w, [type |-> "PAUSE"]), [type |-> "SEEK", time |-> s.startPosition])
     ELSE dispatch(dispatch(w, [type |-> "PLAY"]), [type |-> "SEEK", time |-> s.startPosition])

seekToTime(w, s, time, pauseAudio) ==
  IF s.audioData = 0 THEN w
  ELSE LET wasPlaying == s.isPlaying /\ ~pauseAudio
           w1 == IF s.isPlaying THEN pause(w) ELSE w
           w2 == IF pauseAudio THEN dispatch(w1, [type |-> "PAUSE"]) ELSE w1
           w3 == seek(dispatch(w2, [type |-> "SEEK", time |-> time]), time)
       IN IF wasPlaying THEN dispatch(w3, [type |-> "PLAY"]) ELSE w3

\* near: isClickNearPlayhead(event.clientX); time: getTimeFromX(event.clientX)
handleCanvasMouseDown(w, near, time) ==
  LET s == w.s
  IN IF s.audioData = 0 THEN w
     ELSE IF near
     THEN LET w1 == dispatch(w, [type |-> "DRAG_START"])
          IN IF s.isPlaying THEN dispatch(pause(w1), [type |-> "PAUSE"]) ELSE w1
     ELSE seekToTime(dispatch(w, [type |-> "SET_START_POSITION", position |-> time]),
                     s, time, FALSE)

handleGlobalMouseMove(w, time) ==
  IF w.s.isDragging /\ w.s.audioData # 0
  THEN seek(dispatch(w, [type |-> "DRAG_MOVE", time |-> time]), time)
  ELSE w

handleGlobalMouseUp(w, time) ==
  IF w.s.isDragging THEN dispatch(seek(w, time), [type |-> "DRAG_END"]) ELSE w

handleCanvasMouseLeave(w) ==
  IF w.s.isDragging THEN dispatch(w, [type |-> "DRAG_END"]) ELSE w

\* ------------------------------------------------------------ file loading
\* handleFileSelect up to its await: a .wav name dispatches FILE_LOAD_START
\* and starts parsing; any other name only alerts
handleFileSelect(w, f, isWav) ==
  IF isWav
  THEN [dispatch(w, [type |-> "FILE_LOAD_START"]) EXCEPT !.r.load = f]
  ELSE w

\* (a failed parse that is swallowed)
fileParsedSilent(w, ok) ==
  IF ok
  THEN [dispatch([w EXCEPT !.r.load = 0],
                 [type |-> "FILE_LOAD_SUCCESS", audioData |-> w.r.load, fileName |-> w.r.load])
          EXCEPT !.r.audioChanged = TRUE]
  ELSE [w EXCEPT !.r.load = 0]

\* parseWavFile settles
fileParsed(w, ok) ==
  LET f == w.r.load
      w1 == [w EXCEPT !.r.load = 0]
  IN IF ok
     THEN [dispatch(w1, [type |-> "FILE_LOAD_SUCCESS", audioData |-> f, fileName |-> f])
             EXCEPT !.r.audioChanged = TRUE]
     ELSE dispatch(w1, [type |-> "FILE_LOAD_ERROR"])

\* ------------------------------------------------------------ platform steps
\* The clock of a context is followed while something can still read it or
\* depends on it: a decode pending on it, the voice of sourceNodeRef, a voice
\* sounding on it.
Decoding(w, c) == \E i \in InitIds : w.r.init[i].pc = "decoding" /\ w.r.init[i].ctx = c
Tracked(w, c) ==
  /\ CtxLive(w, c)
  /\ \/ Decoding(w, c)
     \/ w.c.sourceNodeRef # 0 /\ (w.c.audioContextRef = c \/ w.h.voice[w.c.sourceNodeRef].ctx = c)
     \/ \E v \in VoiceIds : w.h.voice[v].st = "playing" /\ w.h.voice[v].ctx = c

CanTick(w) ==
  /\ Quiet(w)
  /\ \E c \in CtxIds : Tracked(w, c)
  /\ \A c \in CtxIds : Tracked(w, c) =>
        w.h.ctx[c].t < (IF Decoding(w, c) THEN MaxDecode ELSE MaxNow)

\* the hardware clock advances; a playing voice whose buffer is used up ends
\* and queues its ended event
tick(w) ==
  [w EXCEPT !.h.ctx = [c \in CtxIds |-> IF Tracked(w, c) THEN [@[c] EXCEPT !.t = @ + 1] ELSE @[c]],
            !.h.voice = [v \in VoiceIds |->
                           IF Sounding(w, v) /\ @[v].endAt <= w.h.ctx[@[v].ctx].t + 1
                           THEN Finished(@[v], "natural")
                           ELSE @[v]]]

\* the ended event of voice v is delivered to source.onended
endedEvent(w, v) == [sourceEnded(w, v) EXCEPT !.h.voice[v].st = "done"]

\* An open context nothing refers to any more (and with no voice left playing
\* on it) leaves the model as a leak.  The clock of a context that is no
\* longer followed is not kept.
Held(w, c) ==
  \/ w.c.audioContextRef = c
  \/ \E i \in InitIds : w.r.init[i].ctx = c
  \/ \E v \in VoiceIds : w.h.voice[v].st = "playing" /\ w.h.voice[v].ctx = c

Collect(w) ==
  LET gone == {c \in CtxIds : w.h.ctx[c].st # "free" /\ ~Held(w, c)}
  IN [w EXCEPT !.h.ctx = [c \in CtxIds |->
                            IF c \in gone THEN FreeCtx
                            ELSE IF Tracked(w, c) THEN @[c] ELSE [@[c] EXCEPT !.t = 0]],
               !.o.leaked = gone # {}]

\* ------------------------------------------------------------ specification
InitProgram ==
  /\ state = initialState
  /\ clock = [audioContextRef |-> 0, audioBufferRef |-> 0, sourceNodeRef |-> 0,
              startTimeRef |-> 0, pausedAtRef |-> 0, animationFrameRef |-> 0,
              currentAudioDataRef |-> 0, isInitializedRef |-> FALSE,
              isPlayingRef |-> FALSE, isDraggingRef |-> FALSE]
  /\ hw = [ctx |-> [c \in CtxIds |-> FreeCtx],
           voice |-> [v \in VoiceIds |-> FreeVoice],
           frame |-> [i \in FrameIds |-> FreeFrame]]
  /\ host = [deps |-> DepsOf(initialState), audioChanged |-> FALSE,
             init |-> [i \in InitIds |-> FreeInit], load |-> 0]

Init ==
  /\ InitProgram
  /\ obs = NoObs

Apply(w) ==
  /\ ~w.over
  /\ state' = w.s
  /\ clock' = w.c
  /\ hw' = Collect(w).h
  /\ host' = w.r
  /\ obs' = [Collect(w).o EXCEPT !.last = IF w.c.sourceNodeRef # 0 THEN @ ELSE <<>>]

\* discrete user events: handler, re-render and effects in one step
PlayPause ==
  /\ Quiet(World)
  /\ Apply(runEffects(handlePlayPause(World)))

MouseDown ==
  /\ Quiet(World) /\ state.audioData # 0
  /\ \E near \in BOOLEAN, time \in 0..Duration(state.audioData) :
       Apply(runEffects(handleCanvasMouseDown(World, near, time)))

MouseMove ==
  /\ Quiet(World) /\ state.audioData # 0 /\ state.isDragging
  /\ \E time \in 0..Duration(state.audioData) :
       Apply(runEffects(handleGlobalMouseMove(World, time)))

MouseUp ==
  /\ Quiet(World) /\ state.audioData # 0 /\ state.isDragging
  /\ \E time \in 0..Duration(state.audioData) :
       Apply(runEffects(handleGlobalMouseUp(World, time)))

MouseLeave ==
  /\ Quiet(World) /\ state.audioData # 0 /\ state.isDragging
  /\ Apply(runEffects(handleCanvasMouseLeave(World)))

FileSelect ==
  /\ Quiet(World) /\ ~state.loading /\ host.load = 0
  /\ \E f \in Files, isWav \in BOOLEAN :
       Apply(runEffects(handleFileSelect(World, f, isWav)))

\* asynchronous completions: their dispatches are rendered by a later Commit
FileParsed ==
  /\ host.load # 0
  /\ \E ok \in BOOLEAN : Apply(fileParsed(World, ok))

Commit ==
  /\ ~Clean(World)
  /\ Apply(runEffects(World))

CloseDone ==
  \E i \in InitIds : /\ host.init[i].pc = "closing"
                     /\ Apply(closeDone(World, i))

DecodeDone ==
  \E i \in InitIds, ok \in BOOLEAN :
     /\ host.init[i].pc = "decoding"
     /\ Apply(decodeDone(World, i, ok))

Frame ==
  \E id \in FrameIds : /\ hw.frame[id].st = "pending"
                       /\ Apply(updatePlayhead(World, id))

Ended ==
  \E v \in VoiceIds : /\ hw.voice[v].st = "ended"
                      /\ Apply(endedEvent(World, v))

Tick ==
  /\ CanTick(World)
  /\ Apply(tick(World))

Next ==
  \/ PlayPause \/ MouseDown \/ MouseMove \/ MouseUp \/ MouseLeave
  \/ FileSelect \/ FileParsed \/ Commit
  \/ CloseDone \/ DecodeDone \/ Frame \/ Ended \/ Tick

Spec == Init /\ [][Next]_vars

\* ------------------------------------------------------------ the clock alone
\* The playback clock driven through its interface, in any order of calls,
\* with one track of duration TrackLen.  Here obs holds the call just made
\* (op), what it did, and base: the position and the hardware clock reading
\* of the play that started the voice of sourceNodeRef, and its context,
\* kept while that voice is the one of sourceNodeRef and no position was
\* sought.
Track == TrackLen
MaxClock == MaxDecode + Duration(Track) + MaxOverrun

\* calls: the calls made so far; time: the position delivered to
\* onTimeUpdate in the step, if any
ClockObs(o, op, calls, base) ==
  [op |-> op, calls |-> calls, base |-> base, time |-> o.last, started |-> o.started,
   reported |-> o.reported, stale |-> o.stale, rejected |-> o.rejected,
   failed |-> o.failed, last |-> <<>>]

ClockInit ==
  /\ InitProgram
  /\ obs = ClockObs(NoObs, <<"none">>, 0, <<>>)

\* base after a step that neither plays nor seeks
Keep(w) == IF w.c.sourceNodeRef # 0 THEN obs.base ELSE <<>>

Calls == {"initialize", "play", "pause", "seek", "cleanup", "props"}

ClockApply(w, op, base) ==
  /\ ~w.over
  /\ op[1] \in Calls => obs.calls < MaxCalls
  /\ state' = w.s
  /\ clock' = w.c
  /\ hw' = Collect(w).h
  /\ host' = w.r
  /\ obs' = ClockObs(w.o, op, obs.calls + (IF op[1] \in Calls THEN 1 ELSE 0), base)

\* audioService.initialize(arrayBuffer), with no continuation attached
CallInitialize ==
  LET s == [state EXCEPT !.audioData = Track, !.isPlaying = FALSE]
  IN ClockApply(initialize(World, s), <<"initialize">>, Keep(initialize(World, s)))

CallPlay ==
  \E p \in 0..Duration(Track) :
     LET w == play(World, Track, p, Callbacks(Track, state.isPlaying))
     IN ClockApply(w, <<"play", p>>,
                   IF w.o.started # 0
                   THEN <<p, currentTime(World), clock.audioContextRef>>
                   ELSE <<>>)

\* (base is kept through the pause that ends it)
CallPause == ClockApply(pause(World), <<"pause">>, obs.base)

CallSeek ==
  \E t \in 0..Duration(Track) : ClockApply(seek(World, t), <<"seek", t>>, <<>>)

CallCleanup == ClockApply(cleanup(World), <<"cleanup">>, <<>>)

\* the host renders with new props
SetProps ==
  \E isPlaying, isDragging \in BOOLEAN :
     /\ <<isPlaying, isDragging>> # <<clock.isPlayingRef, clock.isDraggingRef>>
     /\ LET w == propsEffects([World EXCEPT !.s.isPlaying = isPlaying,
                                            !.s.isDragging = isDragging],
                              isPlaying, isDragging)
        IN ClockApply(w, <<"props">>, Keep(w))

ClockCloseDone ==
  \E i \in InitIds : /\ host.init[i].pc = "closing"
                     /\ ClockApply(closeDone(World, i), <<"closeDone">>, Keep(closeDone(World, i)))

ClockDecodeDone ==
  \E i \in InitIds, ok \in BOOLEAN :
     /\ host.init[i].pc = "decoding"
     /\ ClockApply(decodeDone(World, i, ok), <<"decodeDone">>, Keep(decodeDone(World, i, ok)))

\* a context closed by cleanup is closed
ClockClosed ==
  \E c \in CtxIds :
     /\ hw.ctx[c].st = "closing"
     /\ \A i \in InitIds : ~(host.init[i].pc = "closing" /\ host.init[i].ctx = c)
     /\ ClockApply(closed(World, c), <<"closed">>, Keep(closed(World, c)))

ClockFrame ==
  \E id \in FrameIds : /\ hw.frame[id].st = "pending"
                       /\ ClockApply(updatePlayhead(World, id), <<"frame">>,
                                     Keep(updatePlayhead(World, id)))

ClockEnded ==
  \E v \in VoiceIds : /\ hw.voice[v].st = "ended"
                      /\ ClockApply(endedEvent(World, v), <<"ended">>, <<>>)

ClockTick ==
  /\ \A v \in VoiceIds : hw.voice[v].st # "ended"
  /\ \E c \in CtxIds : Tracked(World, c)
  /\ \A c \in CtxIds : Tracked(World, c) =>
        hw.ctx[c].t < (IF Decoding(World, c) THEN MaxDecode ELSE MaxClock)
  /\ ClockApply(tick(World), <<"tick">>, Keep(tick(World)))

ClockNext ==
  \/ CallInitialize \/ CallPlay \/ CallPause \/ CallSeek \/ CallCleanup \/ SetProps
  \/ ClockCloseDone \/ ClockDecodeDone \/ ClockClosed \/ ClockFrame \/ ClockEnded \/ ClockTick

ClockSpec == ClockInit /\ [][ClockNext]_vars

\* ------------------------------------------------------------ the reducer alone
\* The session reducer driven by every sequence of actions.  Here obs is the
\* action just dispatched and the session before it.
Times == 0..MaxTime
Positions == 0..MaxPos
ReducerActions ==
  {[type |-> t] : t \in {"FILE_LOAD_START", "FILE_LOAD_ERROR", "PLAY", "PAUSE", "DRAG_START",
                         "DRAG_END", "CLEAR_PENDING_TAG", "UNKNOWN"}}
  \cup {[type |-> "FILE_LOAD_SUCCESS", audioData |-> f, fileName |-> n] : f \in Files, n \in Files}
  \cup {[type |-> t, time |-> x] : t \in {"SEEK", "DRAG_MOVE", "TIME_UPDATE"}, x \in Positions}
  \cup {[type |-> "SET_START_POSITION", position |-> x] : x \in Positions}
  \cup {[type |-> "TOGGLE_TAG", currentTime |-> x] : x \in Times}
  \cup {[type |-> "REMOVE_TAG", index |-> i] : i \in (0 - 1)..MaxTags}
  \cup {[type |-> "RESIZE", screenWidth |-> x] : x \in 1..MaxWidth}

ReducerInit ==
  /\ InitProgram
  /\ obs = [act |-> [type |-> "NONE"], prev |-> initialState]

\* dispatch(a); the tag list is kept within MaxTags
Dispatch ==
  \E a \in ReducerActions :
     /\ Len(waveformReducer(state, a).tags) <= MaxTags
     /\ state' = waveformReducer(state, a)
     /\ obs' = [act |-> a, prev |-> state]
     /\ UNCHANGED <<clock, hw, host>>

\* a load whose parsing fails: handleFileSelect, then parseWavFile rejects
LoadFails ==
  \E f \in Files :
     /\ state' = fileParsed(handleFileSelect(World, f, TRUE), FALSE).s
     /\ obs' = [act |-> [type |-> "LOAD_FAILS"], prev |-> state]
     /\ UNCHANGED <<clock, hw, host>>

ReducerNext == Dispatch \/ LoadFails

ReducerSpec == ReducerInit /\ [][ReducerNext]_vars

\* ------------------------------------------------------------ container decoder
\* A file is the sequence of its bytes.  A sample value is kept exactly, as
\* num / 2^exp; a value stored in the sample array has num odd or zero.  Errors are named by their messages; RangeError is
\* what a DataView read past the last byte, or a typed array of impossible
\* length, throws.
RIFF == <<82, 73, 70, 70>>
WAVE == <<87, 65, 86, 69>>
FMT == <<102, 109, 116, 32>>
DATA == <<100, 97, 116, 97>>

InView(buf, off, n) == off + n <= Len(buf)
getUint8(buf, off) == buf[off + 1]
getUint16(buf, off) == buf[off + 1] + 256 * buf[off + 2]
getInt16(buf, off) == IF getUint16(buf, off) >= 32768 THEN getUint16(buf, off) - 65536
                      ELSE getUint16(buf, off)
getUint32(buf, off) == getUint16(buf, off) + 65536 * getUint16(buf, off + 2)
getInt32(buf, off) == getUint16(buf, off) + 65536 * getInt16(buf, off + 2)
\* String.fromCharCode of the four bytes at off
fourCC(buf, off) == SubSeq(buf, off + 1, off + 4)

MaxInt == 2147483647
Value(num, exp) == [num |-> num, exp |-> exp]
\* the same number with num odd, or zero
RECURSIVE Norm(_, _)
Norm(num, exp) ==
  IF num = 0 THEN Value(0, 0)
  ELSE IF num % 2 = 0 THEN Norm(num \div 2, exp - 1)
  ELSE Value(num, exp)
Abs(x) == IF x < 0 THEN 0 - x ELSE x
RECURSIVE BitLen(_)
BitLen(n) == IF n = 0 THEN 0 ELSE 1 + BitLen(n \div 2)

\* storing a number in a Float32Array rounds it to 24 significant bits, ties
\* to even
fround(v) ==
  LET a == Abs(v.num)
      k == BitLen(a) - 24
  IN IF v.num = 0 - MaxInt - 1 \/ k <= 0 THEN Norm(v.num, v.exp)
     ELSE LET lo == a \div (2 ^ k)
              r == a % (2 ^ k)
              m == IF 2 * r > 2 ^ k \/ (2 * r = 2 ^ k /\ lo % 2 = 1) THEN lo + 1 ELSE lo
          IN Norm(IF v.num < 0 THEN 0 - m ELSE m, v.exp - k)

NoAudio == [samples |-> <<>>, sampleRate |-> 0, channels |-> 0, duration |-> [num |-> 0, den |-> 1]]
NotParsed == [pc |-> "start", error |-> "", dataOffset |-> 0, dataSize |-> 0, audio |-> NoAudio]
Fail(message) == [NotParsed EXCEPT !.pc = "failed", !.error = message]

\* the chunk loop; fmt holds channels, sampleRate and bitsPerSample as last
\* read (or their defaults)
RECURSIVE scanChunks(_, _, _)
scanChunks(buf, offset, fmt) ==
  IF offset >= Len(buf) THEN [error |-> "", fmt |-> fmt, dataOffset |-> 0, dataSize |-> 0]
  ELSE IF ~InView(buf, offset, 8) THEN [error |-> "RangeError"]
  ELSE LET chunkId == fourCC(buf, offset)
           chunkSize == getUint32(buf, offset + 4)
       IN IF chunkId = FMT
          THEN IF ~InView(buf, offset + 8, 2) THEN [error |-> "RangeError"]
               ELSE IF getUint16(buf, offset + 8) # 1
               THEN [error |-> "Only PCM format is supported"]
               ELSE IF ~InView(buf, offset + 22, 2) THEN [error |-> "RangeError"]
               ELSE scanChunks(buf, offset + 8 + chunkSize,
                               [channels |-> getUint16(buf, offset + 10),
                                sampleRate |-> getUint32(buf, offset + 12),
                                bitsPerSample |-> getUint16(buf, offset + 22)])
          ELSE IF chunkId = DATA
          THEN [error |-> "", fmt |-> fmt, dataOffset |-> offset + 8, dataSize |-> chunkSize]
          ELSE scanChunks(buf, offset + 8 + chunkSize, fmt)

Widths == {8, 16, 24, 32}

\* the conversion of the bytes at off, by width
readSample(buf, off, bitsPerSample) ==
  CASE bitsPerSample = 8 -> Value(getUint8(buf, off) - 128, 7)
    [] bitsPerSample = 16 -> Value(getInt16(buf, off), 15)
    [] bitsPerSample = 24 ->
         LET combined == getUint8(buf, off + 2) * 65536 + getUint8(buf, off + 1) * 256
                         + getUint8(buf, off)
         IN Value(IF combined > 8388607 THEN combined - 16777216 ELSE combined, 23)
    [] bitsPerSample = 32 -> Value(getInt32(buf, off), 31)

\* (a downmix that keeps the first channel only)
downmixFirst(vals) == vals[1]
\* sum / channels, for one or two channels
downmix(vals) ==
  IF Len(vals) > 1 THEN Value(vals[1].num + vals[2].num, vals[1].exp + 1)
  ELSE vals[1]

\* (a frame count that forgets the channels)
numSamplesMono(dataSize, bitsPerSample, channels) == [num |-> 8 * dataSize, den |-> bitsPerSample]
\* dataSize / (bytesPerSample * channels), as a fraction
numSamples(dataSize, bitsPerSample, channels) ==
  [num |-> 8 * dataSize, den |-> bitsPerSample * channels]

\* the number of turns of a loop for (i = 0; i < n; i++), n a fraction
Turns(n) == (n.num + n.den - 1) \div n.den

\* sample i of the loop, or <<>> when one of its reads is out of range
frameAt(buf, sampleOffset, bitsPerSample, channels) ==
  LET bytes == bitsPerSample \div 8
      chans == IF channels > 1 THEN channels ELSE 1
  IN IF ~InView(buf, sampleOffset, bytes) THEN <<>>
     ELSE IF ~InView(buf, sampleOffset + (chans - 1) * bytes, bytes) THEN <<>>
     ELSE <<fround(downmix([ch \in 1..chans |->
                              readSample(buf, sampleOffset + (ch - 1) * bytes, bitsPerSample)]))>>

\* parseWavFile from the bytes of the file to its await of decodeAudioData
parse(buf) ==
  IF ~InView(buf, 0, 4) THEN Fail("RangeError")
  ELSE IF fourCC(buf, 0) # RIFF THEN Fail("Not a valid WAV file")
  ELSE IF ~InView(buf, 8, 4) THEN Fail("RangeError")
  ELSE IF fourCC(buf, 8) # WAVE THEN Fail("Not a valid WAV file")
  ELSE LET s == scanChunks(buf, 12, [channels |-> 1, sampleRate |-> 44100, bitsPerSample |-> 16])
       IN IF s.error # "" THEN Fail(s.error)
          ELSE IF s.dataOffset = 0 THEN Fail("No data chunk found")
          ELSE LET bits == s.fmt.bitsPerSample
                   channels == s.fmt.channels
                   n == numSamples(s.dataSize, bits, channels)
                   audio(samples) ==
                     [pc |-> "decoding", error |-> "", dataOffset |-> s.dataOffset,
                      dataSize |-> s.dataSize,
                      audio |-> [samples |-> samples, sampleRate |-> s.fmt.sampleRate,
                                 channels |-> channels,
                                 duration |-> [num |-> n.num, den |-> n.den * s.fmt.sampleRate]]]
               IN IF n.den = 0
                  THEN IF n.num = 0 THEN audio(<<>>) ELSE Fail("RangeError")
                  ELSE IF bits \notin Widths
                  THEN audio([i \in 1..(n.num \div n.den) |-> fround(Value(0, 0))])
                  ELSE LET frames == [i \in 1..Turns(n) |->
                                        frameAt(buf, s.dataOffset + (i - 1) * (bits \div 8) * channels,
                                                bits, channels)]
                       IN IF \E i \in 1..Turns(n) : frames[i] = <<>> THEN Fail("RangeError")
                          ELSE audio([i \in 1..(n.num \div n.den) |-> frames[i][1]])

\* decodeAudioData settles: the audio is returned, or the parse fails
decoded(r, ok) ==
  IF ok THEN [r EXCEPT !.pc = "returned"] ELSE Fail("Failed to decode audio file")

\* ------------------------------------------------------------ the decoder alone
\* The files the decoder is given: well-formed PCM files of every width, and
\* files that are malformed, cut short or of a format the decoder does not
\* convert.
U16(n) == <<n % 256, (n \div 256) % 256>>
U32(n) == U16(n % 65536) \o U16(n \div 65536)
RECURSIVE Concat(_)
Concat(ss) == IF ss = <<>> THEN <<>> ELSE Head(ss) \o Concat(Tail(ss))

\* the little-endian bytes of q at width w; an 8-bit sample is stored as q + 128
Encode(q, w) ==
  IF w = 8 THEN <<q + 128>>
  ELSE [b \in 1..(w \div 8) |-> (q \div (256 ^ (b - 1))) % 256]

Header(riff, wave, body) == riff \o U32(4 + Len(body)) \o wave \o body
fmtChunk(format, channels, rate, bits) ==
  FMT \o U32(16) \o U16(format) \o U16(channels) \o U32(rate)
      \o U32((rate * channels * bits) \div 8) \o U16((channels * bits) \div 8) \o U16(bits)
dataChunk(declared, bytes) == DATA \o U32(declared) \o bytes
listChunk(bytes) == <<76, 73, 83, 84>> \o U32(Len(bytes)) \o bytes

Rates == {8000, 48000}
Quanta(w, channels) ==
  IF w = 32
  THEN IF channels = 1 THEN {0 - MaxInt - 1, 0 - 1, 2 ^ 24 + 1, 2 ^ 30, MaxInt}
       ELSE {1 - 2 ^ 30, 0 - (2 ^ 29), 2 ^ 24 + 1, 2 ^ 29}
  ELSE {0 - (2 ^ (w - 1)), 0 - (2 ^ (w - 2)), 2 ^ (w - 2), 2 ^ (w - 1) - 1}
       \cup (IF channels = 1 THEN {0 - 1} ELSE {})

SeqsUpTo(S, n) == UNION {[1..k -> S] : k \in 0..n}

PcmBytes(frames, w) == Concat([i \in 1..Len(frames) |->
                                Concat([ch \in 1..Len(frames[i]) |-> Encode(frames[i][ch], w)])])
PcmFile(w, channels, rate, frames) ==
  [about |-> [kind |-> "pcm", bits |-> w, channels |-> channels, sampleRate |-> rate,
              frames |-> frames],
   bytes |-> Header(RIFF, WAVE, fmtChunk(1, channels, rate, w)
                                \o dataChunk(Len(PcmBytes(frames, w)), PcmBytes(frames, w)))]
ChannelCounts == 1..2
PcmFiles(maxFrames) ==
  {PcmFile(a[1], a[2], a[3], a[4]) :
     a \in UNION {{<<w, c, rate, fs>> : rate \in Rates,
                                         fs \in SeqsUpTo([1..c -> Quanta(w, c)], maxFrames)} :
                    <<w, c>> \in Widths \X ChannelCounts}}

Raw(bytes) == [about |-> [kind |-> "raw", bits |-> 0, channels |-> 0, sampleRate |-> 0,
                          frames |-> <<>>],
               bytes |-> bytes]
Pcm16 == fmtChunk(1, 1, 8000, 16)
Bodies ==
  { <<>>,
    Pcm16,
    Pcm16 \o listChunk(<<1, 2>>),
    listChunk(<<1, 2>>) \o Pcm16 \o dataChunk(4, <<1, 0, 2, 0>>),
    Pcm16 \o dataChunk(2, <<1, 0>>) \o dataChunk(4, <<2, 0, 3, 0>>),
    dataChunk(4, <<1, 0, 2, 0>>) \o fmtChunk(1, 2, 48000, 8),
    Pcm16 \o dataChunk(6, <<1, 0, 2, 0>>),
    Pcm16 \o dataChunk(3, <<1, 0, 2, 0>>),
    Pcm16 \o dataChunk(3, <<1, 0, 2>>),
    Pcm16 \o listChunk(<<1, 2, 3>>) \o <<0>> \o dataChunk(2, <<1, 0>>),
    fmtChunk(3, 1, 8000, 32),
    fmtChunk(3, 1, 8000, 32) \o dataChunk(4, <<0, 0, 0, 0>>),
    fmtChunk(1, 1, 8000, 12) \o dataChunk(3, <<1, 2, 3>>),
    fmtChunk(1, 2, 8000, 12) \o dataChunk(3, <<1, 2, 3>>),
    fmtChunk(1, 1, 8000, 0) \o dataChunk(2, <<1, 0>>),
    fmtChunk(1, 1, 8000, 0) \o dataChunk(0, <<>>),
    fmtChunk(1, 0, 8000, 16) \o dataChunk(2, <<1, 0>>),
    fmtChunk(1, 0, 8000, 16) \o dataChunk(0, <<>>),
    fmtChunk(1, 1, 0, 16) \o dataChunk(2, <<1, 0>>),
    Pcm16 \o fmtChunk(1, 1, 0, 16) \o dataChunk(2, <<1, 0>>) }
Tags == {<<RIFF, WAVE>>, <<<<82, 73, 70, 88>>, WAVE>>, <<RIFF, <<65, 86, 73, 32>>>>}
Prefixes(bytes) == {SubSeq(bytes, 1, k) : k \in 0..Len(bytes)}
RawFiles ==
  {Raw(p) : p \in UNION {Prefixes(Header(t[1], t[2], b)) : <<t, b>> \in Tags \X Bodies}}

ParserObs(file, result) == [file |-> file.bytes, about |-> file.about, result |-> result]
ParserInit ==
  /\ InitProgram
  /\ \E file \in PcmFiles(MaxFrames) \cup RawFiles : obs = ParserObs(file, NotParsed)

\* parseWavFile(file) runs to its await, or throws
Parse ==
  /\ obs.result.pc = "start"
  /\ obs' = [obs EXCEPT !.result = parse(obs.file)]
  /\ UNCHANGED <<state, clock, hw, host>>

\* the platform's decodeAudioData settles
PlatformDecoded ==
  /\ obs.result.pc = "decoding"
  /\ \E ok \in BOOLEAN : obs' = [obs EXCEPT !.result = decoded(obs.result, ok)]
  /\ UNCHANGED <<state, clock, hw, host>>

ParserNext == Parse \/ PlatformDecoded
ParserSpec == ParserInit /\ [][ParserNext]_vars

\* ------------------------------------------------------------ waveform envelope
\* Sample values are counted in units of 1 / One, so that One stands for the
\* sample 1; NaN stands for a sample that is not a number.
One == 2
NaN == 9
displayHeight == 256
centerY == displayHeight \div 2

\* (a * 2^k) mod W
RECURSIVE MulPow2Mod(_, _, _)
MulPow2Mod(a, k, W) == IF k = 0 THEN a % W ELSE MulPow2Mod((2 * a) % W, k - 1, W)
\* the largest L with W * 2^L <= n, for n >= W
RECURSIVE Log2Ratio(_, _)
Log2Ratio(n, W) == IF 2 * W <= n THEN 1 + Log2Ratio(n, 2 * W) ELSE 0

\* Math.floor(i * samplesPerPixel) with samplesPerPixel = Math.max(1, n / W),
\* in double precision.  The quotient n / W is rounded to 53 significant
\* bits, and so is its product with i.  When i * n / W is no whole number the
\* roundings cannot reach the next whole number.  When it is the whole number
\* t, the product is below t only if the quotient was rounded down, by
\* r / (W * 2^k) with r the remainder of n * 2^k by W and k = 52 - Log2Ratio;
\* it is then rounded back to t unless it lies more than half a step of the
\* doubles below t away from t, in which case the floor is t - 1.
floorOffset(i, n, W) ==
  IF n <= W THEN i
  ELSE IF (i * n) % W # 0 \/ i = 0 THEN (i * n) \div W
  ELSE LET t == (i * n) \div W
           Lx == Log2Ratio(n, W)
           r == MulPow2Mod(n, 52 - Lx, W)
           Lt == BitLen(t) - 1
           pow == IF t = 2 ^ Lt THEN 1 ELSE 0
       IN IF r = 0 \/ 2 * r > W THEN t
          ELSE IF i * r * (2 ^ (Lx + 1 + pow)) <= W * (2 ^ Lt) THEN t
          ELSE t - 1

\* the inner loop over j from start up to end, skipping NaN
RECURSIVE scan(_, _, _, _)
scan(samples, j, end, col) ==
  IF j >= end THEN col
  ELSE LET value == samples[j + 1]
       IN scan(samples, j + 1, end,
               IF value # NaN THEN <<Min(col[1], value), Max(col[2], value)>> ELSE col)

\* (a range that takes one sample more)
sampleRangeInclusive(samples, W, i) ==
  <<floorOffset(i, Len(samples), W), Min(floorOffset(i + 1, Len(samples), W) + 1, Len(samples))>>
\* start and end of column i
sampleRange(samples, W, i) ==
  <<floorOffset(i, Len(samples), W), Min(floorOffset(i + 1, Len(samples), W), Len(samples))>>

\* minValues[i] and maxValues[i]
column(samples, W, i) ==
  LET start == sampleRange(samples, W, i)[1]
      end == sampleRange(samples, W, i)[2]
  IN IF start < Len(samples) /\ end > start THEN scan(samples, start, end, <<One, 0 - One>>)
     ELSE <<One, 0 - One>>

\* (an envelope with no more columns than samples)
envelopeClipped(samples, W) == [c \in 1..Min(W, Len(samples)) |-> column(samples, W, c - 1)]
\* the envelope loop
envelope(samples, W) == [c \in 1..W |-> column(samples, W, c - 1)]

\* the render loop: one stroked line per column, from minY to maxY
render(columns) ==
  [c \in 1..Len(columns) |->
     [x |-> c - 1,
      minY |-> centerY - (columns[c][1] * centerY) \div One,
      maxY |-> centerY - (columns[c][2] * centerY) \div One]]

\* ------------------------------------------------------------ the envelope alone
\* Sample sequences of every length up to MaxSamples: a varied one and a
\* silent one, each also with one sample replaced by NaN or by an extreme,
\* and one of NaN only.
Varied(n) == [j \in 1..n |-> ((3 * j) % (2 * One + 1)) - One]
Silent(n) == [j \in 1..n |-> 0]
SampleSeqs ==
  UNION {{Varied(n), Silent(n), [j \in 1..n |-> NaN]}
         \cup {[b EXCEPT ![p] = x] : b \in {Varied(n), Silent(n)}, p \in 1..n,
                                      x \in {NaN, One, 0 - One}} : n \in 0..MaxSamples}

EnvelopeInit ==
  /\ InitProgram
  /\ \E samples \in SampleSeqs, W \in 1..MaxColumns :
       obs = [pc |-> "start", samples |-> samples, displayWidth |-> W, columns |-> <<>>,
              lines |-> <<>>]

\* drawWaveform computes minValues and maxValues
BuildEnvelope ==
  /\ obs.pc = "start"
  /\ obs' = [obs EXCEPT !.pc = "built", !.columns = envelope(obs.samples, obs.displayWidth)]
  /\ UNCHANGED <<state, clock, hw, host>>

\* drawWaveform strokes the columns
Render ==
  /\ obs.pc = "built"
  /\ obs' = [obs EXCEPT !.pc = "drawn", !.lines = render(obs.columns)]
  /\ UNCHANGED <<state, clock, hw, host>>

EnvelopeNext == BuildEnvelope \/ Render
EnvelopeSpec == EnvelopeInit /\ [][EnvelopeNext]_vars

\* ------------------------------------------------------------ display width
MINUTES_BASE == 60
totalHorizontalSpace == 64

\* floor(log2(d / b)) for d, b >= 1
RECURSIVE Log2Quot(_, _)
Log2Quot(d, b) ==
  IF d >= 2 * b THEN 1 + Log2Quot(d, 2 * b)
  ELSE IF d < b THEN Log2Quot(2 * d, b) - 1
  ELSE 0

\* Math.ceil((duration / MINUTES_BASE) * availableWidth) in double precision,
\* for a duration of whole seconds.  The quotient is rounded to 53 significant
\* bits and so is the product.  When duration * availableWidth / MINUTES_BASE
\* is no whole number the roundings cannot reach a whole number.  When it is
\* the whole number t, the product is above t only if the quotient was
\* rounded up, by e / (MINUTES_BASE * 2^k) with e = MINUTES_BASE - r, r the
\* remainder of duration * 2^k and k = 52 - Log2Quot; it is rounded back to t
\* unless it lies more than half a step of the doubles above t away from t,
\* in which case the ceiling is t + 1.
ceilScaled(duration, availableWidth) ==
  LET da == duration * availableWidth
  IN IF duration = 0 THEN 0
     ELSE IF da % MINUTES_BASE # 0 THEN da \div MINUTES_BASE + 1
     ELSE LET t == da \div MINUTES_BASE
              Lx == Log2Quot(duration, MINUTES_BASE)
              r == MulPow2Mod(duration, 52 - Lx, MINUTES_BASE)
              e == MINUTES_BASE - r
              Lt == BitLen(t) - 1
              lhs == 2 * availableWidth * e * (IF Lx >= 0 THEN 2 ^ Lx ELSE 1)
              rhs == MINUTES_BASE * (IF Lx < 0 THEN 2 ^ (0 - Lx) ELSE 1) * (2 ^ Lt)
          IN IF r = 0 \/ 2 * r < MINUTES_BASE THEN t
             ELSE IF lhs > rhs THEN t + 1 ELSE t

calculateCanvasWidth(duration, screenWidth) ==
  ceilScaled(duration, Max(1, screenWidth - totalHorizontalSpace))

\* the display width each consumer computes
widthInDraw(duration, screenWidth) == Max(1, calculateCanvasWidth(duration, screenWidth))
widthInGetTimeFromX(duration, screenWidth) == calculateCanvasWidth(duration, screenWidth)
widthInIsClickNearPlayhead(duration, screenWidth) == calculateCanvasWidth(duration, screenWidth)

\* ------------------------------------------------------------ the display width alone
\* durations in whole seconds, one hour among them, and viewport widths
Seconds == 0..MaxSeconds \cup {3600}
ScreenWidths == {0, 124, 1088} \cup {totalHorizontalSpace + a : a \in 0..MaxAvail}
Consumers == {"drawWaveform", "getTimeFromX", "isClickNearPlayhead"}
NotUsed == 0 - 1

WidthInit ==
  /\ InitProgram
  /\ \E duration \in Seconds, screenWidth \in ScreenWidths :
       obs = [duration |-> duration, screenWidth |-> screenWidth,
              used |-> [c \in Consumers |-> NotUsed]]

\* drawWaveform computes its displayWidth
DrawWaveform ==
  /\ obs.used["drawWaveform"] = NotUsed
  /\ obs' = [obs EXCEPT !.used["drawWaveform"] = widthInDraw(obs.duration, obs.screenWidth)]
  /\ UNCHANGED <<state, clock, hw, host>>

\* getTimeFromX computes its displayWidth
GetTimeFromX ==
  /\ obs.used["getTimeFromX"] = NotUsed
  /\ obs' = [obs EXCEPT !.used["getTimeFromX"] =
                          widthInGetTimeFromX(obs.duration, obs.screenWidth)]
  /\ UNCHANGED <<state, clock, hw, host>>

\* isClickNearPlayhead computes its displayWidth
IsClickNearPlayhead ==
  /\ obs.used["isClickNearPlayhead"] = NotUsed
  /\ obs' = [obs EXCEPT !.used["isClickNearPlayhead"] =
                          widthInIsClickNearPlayhead(obs.duration, obs.screenWidth)]
  /\ UNCHANGED <<state, clock, hw, host>>

WidthNext == DrawWaveform \/ GetTimeFromX \/ IsClickNearPlayhead
WidthSpec == WidthInit /\ [][WidthNext]_vars

\* ------------------------------------------------------------ tag export
\* In this part a time is counted in quarters of 0.0001 s, so that rounding
\* to 4 decimal places changes it; a rounded time is counted in units of
\* 0.0001 s.  Times halfway between two units are left out: there the
\* product start * 10000 depends on the last bit of a double.
\* Math.round(t * 10000) / 10000
round4(t) == (t + 2) \div 4

\* (an export in reverse order)
formattedTagsReversed(tags) ==
  [k \in 1..Len(tags) |-> <<round4(tags[Len(tags) + 1 - k][1]), round4(tags[Len(tags) + 1 - k][2])>>]
\* tags.map(([start, end]) => [round(start), round(end)])
formattedTags(tags) == [k \in 1..Len(tags) |-> <<round4(tags[k][1]), round4(tags[k][2])>>]

\* ------------------------------------------------------------ the export alone
ExportTimes == {t \in 0..MaxExportTime : t % 4 # 2}

ExportInit ==
  /\ InitProgram
  /\ obs = [exported |-> <<>>, from |-> <<>>, alerted |-> FALSE]

\* the user marks a tag boundary: dispatch TOGGLE_TAG
MarkTag ==
  \E t \in ExportTimes :
     LET next == waveformReducer(state, [type |-> "TOGGLE_TAG", currentTime |-> t])
     IN /\ Len(next.tags) <= MaxExportTags
        /\ state' = next
        /\ UNCHANGED <<clock, hw, host, obs>>

\* the Copy JSON button, shown while there are tags; the clipboard takes the
\* text or refuses it
CopyJson ==
  /\ Len(state.tags) > 0
  /\ \E ok \in BOOLEAN :
       obs' = IF ok THEN [exported |-> formattedTags(state.tags), from |-> state.tags,
                          alerted |-> FALSE]
              ELSE [obs EXCEPT !.alerted = TRUE]
  /\ UNCHANGED <<state, clock, hw, host>>

ExportNext == MarkTag \/ CopyJson
ExportSpec == ExportInit /\ [][ExportNext]_vars

\* ------------------------------------------------------------ loading during playback
\* The program with tracks of different lengths, driven by file selection,
\* the play/pause button and clicks that seek (no drag), MaxEvents of them
\* in all.  Here obs holds the position delivered to onTimeUpdate in the
\* step just taken (time), the voice started in it (started), the name of
\* the file selected in it (selected), whether the session is as the last
\* successful load left it (fresh: no play/pause and no click since),
\* whether no user event and no load completion has come since a voice was
\* last started (undisturbed), and the number of user events still to come
\* (left).
Tracks == 1..NTracks

\* file names, as sequences of characters
DotWav == <<".", "w", "a", "v">>
Names ==
  {<<"a">> \o DotWav, <<"a", ".", "W", "A", "V">>, <<"a", ".", "m", "p", "3">>,
   <<"w", "a", "v">>, <<"a">> \o DotWav \o <<"e">>}

\* String.prototype.toLowerCase, on the letters that occur in Names
lowerCase(c) == CASE c = "W" -> "w" [] c = "A" -> "a" [] c = "V" -> "v" [] OTHER -> c
toLowerCase(name) == [k \in 1..Len(name) |-> lowerCase(name[k])]
endsWith(name, suffix) ==
  /\ Len(name) >= Len(suffix)
  /\ SubSeq(name, Len(name) - Len(suffix) + 1, Len(name)) = suffix
\* file.name.toLowerCase().endsWith(".wav")
isWavName(name) == endsWith(toLowerCase(name), DotWav)

LoadObs(o, fresh, left, undisturbed, selected) ==
  [time |-> o.last, started |-> o.started, selected |-> selected, fresh |-> fresh,
   undisturbed |-> undisturbed, left |-> left, last |-> <<>>]

LoadInit ==
  /\ InitProgram
  /\ obs = LoadObs(NoObs, FALSE, MaxEvents, FALSE, <<>>)

\* event: the step handles a user event that dispatches
LoadApply(after, fresh, event, selected) ==
  \E w \in {after} :
     /\ ~w.over
     /\ event => obs.left > 0
     /\ state' = w.s
     /\ clock' = w.c
     /\ hw' = Collect(w).h
     /\ host' = w.r
     /\ obs' = LoadObs(w.o, fresh, obs.left - (IF event THEN 1 ELSE 0),
                       w.o.started # 0 \/ (obs.undisturbed /\ ~event /\ w.r.load = host.load),
                       selected)

LoadPlayPause ==
  /\ Quiet(World) /\ state.audioData # 0
  /\ LoadApply(runEffects(handlePlayPause(World)), FALSE, TRUE, <<>>)

\* a click away from the playhead
LoadClick ==
  /\ Quiet(World) /\ state.audioData # 0
  /\ \E time \in 0..Duration(state.audioData) :
       LoadApply(runEffects(handleCanvasMouseDown(World, FALSE, time)), FALSE, TRUE, <<>>)

LoadFileSelect ==
  /\ Quiet(World) /\ ~state.loading /\ host.load = 0
  /\ \E f \in Tracks, name \in Names :
       LoadApply(runEffects(handleFileSelect(World, f, isWavName(name))), obs.fresh,
                 isWavName(name), name)

LoadFileParsed ==
  /\ host.load # 0
  /\ \E ok \in BOOLEAN : LoadApply(fileParsed(World, ok), ok \/ obs.fresh, FALSE, <<>>)

LoadCommit ==
  /\ ~Clean(World)
  /\ LoadApply(runEffects(World), obs.fresh, FALSE, <<>>)

LoadCloseDone ==
  \E i \in InitIds : /\ host.init[i].pc = "closing"
                     /\ LoadApply(closeDone(World, i), obs.fresh, FALSE, <<>>)

LoadDecodeDone ==
  \E i \in InitIds, ok \in BOOLEAN :
     /\ host.init[i].pc = "decoding"
     /\ LoadApply(decodeDone(World, i, ok), obs.fresh, FALSE, <<>>)

LoadFrame ==
  \E id \in FrameIds : /\ hw.frame[id].st = "pending"
                       /\ LoadApply(updatePlayhead(World, id), obs.fresh, FALSE, <<>>)

LoadEnded ==
  \E v \in VoiceIds : /\ hw.voice[v].st = "ended"
                      /\ LoadApply(endedEvent(World, v), obs.fresh, FALSE, <<>>)

LoadTick ==
  /\ CanTick(World)
  /\ LoadApply(tick(World), obs.fresh, FALSE, <<>>)

LoadNext ==
  \/ LoadPlayPause \/ LoadClick \/ LoadFileSelect \/ LoadFileParsed \/ LoadCommit
  \/ LoadCloseDone \/ LoadDecodeDone \/ LoadFrame \/ LoadEnded \/ LoadTick

LoadSpec == LoadInit /\ [][LoadNext]_vars

\* Promises settle (parseWavFile, close, decodeAudioData), a pending render is
\* committed, a requested animation frame fires, a queued ended event is
\* delivered and the hardware clock advances: each is taken if it stays
\* possible.  User events are under no obligation.
FairInit ==
  /\ InitProgram
  /\ obs = LoadObs(NoObs, FALSE, MaxFairEvents, FALSE, <<>>)

\* the promise of parseWavFile settles
FairLoadSpec == FairInit /\ [][LoadNext]_vars /\ WF_vars(LoadFileParsed)

FairPlaySpec ==
  /\ FairInit /\ [][LoadNext]_vars
  /\ WF_vars(LoadFileParsed) /\ WF_vars(LoadCommit)
  /\ WF_vars(LoadCloseDone) /\ WF_vars(LoadDecodeDone)
  /\ WF_vars(LoadFrame) /\ WF_vars(LoadEnded) /\ WF_vars(LoadTick)

\* ------------------------------------------------------------ claims
SoundingVoices == {v \in VoiceIds : Sounding(World, v)}
PendingFrames == {i \in FrameIds : hw.frame[i].st = "pending"}
PendingInits == {i \in InitIds : host.init[i].pc # "idle"}
\* nothing is left to run until the next user event or clock tick
Settled == Quiet(World) /\ PendingInits = {} /\ host.load = 0

\* C1: completion is reported at most once for one playback (voice),
\* whichever of the poll-loop frame that observes position = duration and
\* the voice's ended notification runs first.
C1_ReportedOnce == \A v \in VoiceIds : hw.voice[v].nEnded <= 1

\* C2: a voice is started only if, at the moment of starting, the session's
\* current isPlaying is true and isDragging is false.
C2_StartOnlyIfIntended == obs.started # 0 => state.isPlaying /\ ~state.isDragging

\* C3: completion is never reported for a voice that was stopped (by pause,
\* a click-seek, a replacing play or initialize), and its ended notification
\* never moves the retained position to the duration.
C3_ReportOnlyNaturalEnd ==
  \A v \in VoiceIds : hw.voice[v].cause = "stopped" => hw.voice[v].nEnded = 0

\* C4: the positions delivered through onTimeUpdate for one voice never
\* regress unless a seek came in between.
C4_Monotone == obs.order # "regress"
\* a position was delivered that is larger than the one delivered before it
C4_Witness == obs.order = "rising" /\ obs.polled

\* C5: while the session is paused or dragging no poll-loop frame is pending,
\* and the poll loop delivers no position for a paused or dragging session.
C5_NoPollWhenStopped ==
  /\ (~state.isPlaying \/ state.isDragging) => PendingFrames = {}
  /\ ~obs.late

\* C6: a Playing flag with no voice does not persist: once nothing is left to
\* run (no render, event, initialize or file load is pending), a session that
\* is playing and not dragging has a voice sounding.
C6_PlayingHasVoice ==
  (Settled /\ state.isPlaying /\ ~state.isDragging) => SoundingVoices # {}

\* C7: at most one hardware voice is sounding, also when initialize calls
\* overlap.
C7_OneVoice == Cardinality(SoundingVoices) <= 1

\* C8: while the session is dragging, no voice is sounding and no poll-loop
\* frame is pending, and the session is not playing.
C8_SuspendedSilent ==
  state.isDragging => SoundingVoices = {} /\ PendingFrames = {} /\ ~state.isPlaying

\* C9: an initialize whose decoding failed leaves no context or buffer
\* installed, and the context it created does not stay open.
C9_FailedInitIsIdle ==
  obs.failed = "decode" =>
     clock.audioContextRef = 0 /\ clock.audioBufferRef = 0 /\ ~obs.leaked

\* C10: play(position) with position >= duration starts no voice and no poll
\* loop and leaves the retained position (pausedAtRef) and the recorded
\* start reading (startTimeRef) as they were.
C10_SilentNoop ==
  obs.noop # <<>> =>
     /\ obs.started = 0
     /\ PendingFrames = {} /\ clock.animationFrameRef = 0
     /\ clock.pausedAtRef = obs.noop[1] /\ clock.startTimeRef = obs.noop[2]
\* play was called at the end of the track while the retained position was
\* elsewhere
C10_Witness == obs.noop # <<>> /\ obs.noop[1] # state.startPosition

\* ------------------------------------------------------------ claims about the clock alone (ClockSpec)
\* C11: a play at a position p before the end of the track, on an open
\* context, starts a voice with the rest of the track from p to play and
\* records p and the hardware clock reading; a pause of that voice, its
\* context still the clock's, after the hardware clock advanced by e
\* retains p + e and reports
\* min(p + e, duration).  This holds for p = 0 and for a play that follows
\* a seek to p alike.
C11_PlayThenPause ==
  [][/\ obs'.op[1] = "play" /\ obs'.op[2] < Duration(Track)
        /\ clock.audioContextRef \in CtxIds /\ clock.audioBufferRef # 0
        => LET v == clock'.sourceNodeRef
               now == hw.ctx[clock.audioContextRef].t
           IN /\ v # 0 /\ obs'.started = v
              /\ hw'.voice[v].st = "playing"
              /\ hw'.voice[v].endAt - now = Duration(Track) - obs'.op[2]
              /\ clock'.pausedAtRef = obs'.op[2]
              /\ clock'.startTimeRef = now
     /\ obs'.op[1] = "pause" /\ clock.sourceNodeRef # 0 /\ obs.base # <<>>
        /\ obs.base[3] \in CtxIds /\ clock.audioContextRef = obs.base[3]
        => LET e == hw.ctx[obs.base[3]].t - obs.base[2]
           IN /\ clock'.pausedAtRef = obs.base[1] + e
              /\ obs'.time = <<Min(obs.base[1] + e, Duration(Track))>>
              /\ state'.currentTime = Min(obs.base[1] + e, Duration(Track))
    ]_vars

\* a voice started at a position after 0 was paused after the hardware
\* clock advanced and before the end of the track
C11_Witness ==
  /\ obs.op[1] = "pause" /\ obs.base # <<>> /\ obs.time # <<>>
  /\ obs.base[1] > 0
  /\ obs.time[1] > obs.base[1]
  /\ obs.time[1] < Duration(Track)
  /\ clock.pausedAtRef = obs.time[1]

\* C12: seek(t) sets the retained position to t and changes nothing else:
\* no other ref, no voice, no pending frame, no context, nothing of the
\* session, and it delivers no position.
C12_SeekOnlyRetains ==
  [][obs'.op[1] = "seek"
     => /\ clock' = [clock EXCEPT !.pausedAtRef = obs'.op[2]]
        /\ hw' = Sweep(hw)
        /\ state' = state
        /\ host' = host
        /\ obs'.time = <<>> /\ obs'.started = 0 /\ obs'.reported = 0
    ]_vars

\* a seek while a voice is sounding and the poll loop is running, to a
\* position other than the one retained before
C12_Witness ==
  /\ obs.op[1] = "seek"
  /\ clock.sourceNodeRef # 0 /\ Sounding(World, clock.sourceNodeRef)
  /\ clock.animationFrameRef # 0 /\ hw.frame[clock.animationFrameRef].st = "pending"
  /\ obs.base = <<>>
  /\ clock.pausedAtRef = obs.op[2] /\ clock.pausedAtRef > clock.startTimeRef

\* ------------------------------------------------------------ a claim about the program (Spec)
\* C13: pause() delivers a position only for a voice that is sounding: when
\* no voice is sounding it reports nothing.
C13_PauseSilentWhenNoVoice == ~obs.stale

\* ---- claims about the reducer alone (ReducerSpec)
\* fields of the session that differ between the session before the action
\* just dispatched and the session after it
ChangedFields == {f \in DOMAIN state : state[f] # obs.prev[f]}

\* C14: TOGGLE_TAG(t) with no pending marker sets the marker to t and leaves
\* the tag list alone; TOGGLE_TAG(t2) with a pending marker t < t2 appends
\* exactly the tag (t, t2) at the end, keeps the earlier tags in place and
\* clears the marker.
C14_ToggleTagAppends ==
  obs.act.type = "TOGGLE_TAG" =>
     LET p == obs.prev
         t == obs.act.currentTime
     IN /\ p.pendingTagStart = <<>> =>
              state.pendingTagStart = <<t>> /\ state.tags = p.tags
        /\ (p.pendingTagStart # <<>> /\ t > p.pendingTagStart[1]) =>
              /\ Len(state.tags) = Len(p.tags) + 1
              /\ state.tags[Len(state.tags)] = <<p.pendingTagStart[1], t>>
              /\ \A k \in 1..Len(p.tags) : state.tags[k] = p.tags[k]
              /\ state.pendingTagStart = <<>>
\* a tag was completed behind an earlier, different tag
C14_Witness ==
  /\ obs.act.type = "TOGGLE_TAG" /\ obs.prev.pendingTagStart # <<>>
  /\ Len(obs.prev.tags) = 1 /\ Len(state.tags) = 2 /\ state.tags[1] # state.tags[2]

\* C15: TOGGLE_TAG(t) with a pending marker s >= t creates no tag, leaves the
\* tag list alone and clears the marker.
C15_ToggleTagDiscards ==
  (/\ obs.act.type = "TOGGLE_TAG" /\ obs.prev.pendingTagStart # <<>>
   /\ obs.act.currentTime <= obs.prev.pendingTagStart[1]) =>
     state.tags = obs.prev.tags /\ state.pendingTagStart = <<>>
\* the marker was toggled again at its own time
C15_Witness ==
  /\ obs.act.type = "TOGGLE_TAG" /\ obs.prev.pendingTagStart = <<obs.act.currentTime>>
  /\ state.pendingTagStart = <<>>

\* C16: every tag of the tag list of a reachable session ends after it starts.
C16_TagsOrdered == \A k \in 1..Len(state.tags) : state.tags[k][2] > state.tags[k][1]
\* the tag list is full
C16_Witness == Len(state.tags) = MaxTags

\* C17: REMOVE_TAG(i) with 0 <= i < length removes exactly the tag at index i
\* and keeps the others in order; with any other i the list is unchanged; the
\* pending marker is never changed.
C17_RemoveTagExact ==
  obs.act.type = "REMOVE_TAG" =>
     LET p == obs.prev
         i == obs.act.index
     IN /\ state.pendingTagStart = p.pendingTagStart
        /\ IF 0 <= i /\ i < Len(p.tags)
           THEN /\ Len(state.tags) = Len(p.tags) - 1
                /\ \A k \in 1..Len(state.tags) :
                      state.tags[k] = IF k <= i THEN p.tags[k] ELSE p.tags[k + 1]
           ELSE state.tags = p.tags
\* the first of two different tags was removed
C17_Witness ==
  /\ obs.act.type = "REMOVE_TAG" /\ obs.act.index = 0
  /\ Len(obs.prev.tags) = 2 /\ obs.prev.tags[1] # obs.prev.tags[2]
  /\ state.tags = <<obs.prev.tags[2]>>

\* C18: FILE_LOAD_SUCCESS(data, name) yields currentTime 0, startPosition 0,
\* isPlaying false, no tags, no pending marker, loading false, and installs
\* data and name.
C18_FileLoadSuccessResets ==
  obs.act.type = "FILE_LOAD_SUCCESS" =>
     /\ state.currentTime = 0 /\ state.startPosition = 0 /\ ~state.isPlaying
     /\ state.tags = <<>> /\ state.pendingTagStart = <<>> /\ ~state.loading
     /\ state.audioData = obs.act.audioData /\ state.fileName = obs.act.fileName
\* a file was loaded over a playing session with tags, a marker and a position
C18_Witness ==
  /\ obs.act.type = "FILE_LOAD_SUCCESS" /\ obs.prev.isPlaying /\ obs.prev.tags # <<>>
  /\ obs.prev.pendingTagStart # <<>> /\ obs.prev.currentTime # 0
  /\ obs.prev.startPosition # 0

\* C19: FILE_LOAD_ERROR, and a load whose parsing fails as a whole, change
\* no field of the session but loading, which is false afterwards.
C19_FailedLoadKeepsSession ==
  obs.act.type \in {"FILE_LOAD_ERROR", "LOAD_FAILS"} =>
     ~state.loading /\ ChangedFields \subseteq {"loading"}
\* a load failed over a session with audio, tags and a marker
C19_Witness ==
  /\ obs.act.type = "LOAD_FAILS" /\ obs.prev.audioData # 0 /\ obs.prev.tags # <<>>
  /\ obs.prev.pendingTagStart # <<>> /\ obs.prev.currentTime # 0

\* C20: each action changes only the fields listed for it, an unknown action
\* changes nothing, and none of these actions changes the tag list.
ListedFields(type) ==
  CASE type = "FILE_LOAD_START" -> {"loading"}
    [] type \in {"PLAY", "PAUSE"} -> {"isPlaying"}
    [] type \in {"SEEK", "TIME_UPDATE"} -> {"currentTime"}
    [] type = "SET_START_POSITION" -> {"startPosition"}
    [] type \in {"DRAG_START", "DRAG_END"} -> {"isDragging"}
    [] type = "DRAG_MOVE" -> {"currentTime", "isDragging"}
    [] type = "CLEAR_PENDING_TAG" -> {"pendingTagStart"}
    [] type = "RESIZE" -> {"screenWidth"}
    [] OTHER -> {}
C20_OnlyListedFields ==
  obs.act.type \in {"FILE_LOAD_START", "PLAY", "PAUSE", "SEEK", "TIME_UPDATE",
                    "SET_START_POSITION", "DRAG_START", "DRAG_END", "DRAG_MOVE",
                    "CLEAR_PENDING_TAG", "RESIZE", "UNKNOWN"} =>
     ChangedFields \subseteq ListedFields(obs.act.type)
\* a drag moved the playhead of a session with tags and a start position
C20_Witness ==
  /\ obs.act.type = "DRAG_MOVE" /\ ~obs.prev.isDragging /\ state.isDragging
  /\ state.currentTime # obs.prev.currentTime /\ state.currentTime # state.startPosition
  /\ state.tags # <<>>

\* ------------------------------------------------------------ claims about the decoder alone (ParserSpec)
Parsed == obs.result.pc # "start"
Failed(message) == obs.result.pc = "failed" /\ obs.result.error = message
\* the four bytes at off, or <<>> when the buffer ends before them
TagAt(buf, off) == IF InView(buf, off, 4) THEN fourCC(buf, off) ELSE <<>>
ValidTags(buf) == TagAt(buf, 0) = RIFF /\ TagAt(buf, 8) = WAVE

\* C21: every buffer, of any length, whose bytes 0-3 are not RIFF or whose
\* bytes 8-11 are not WAVE fails with "Not a valid WAV file" (the container
\* error), and no audio is returned for it.
C21_BadTagsInvalidContainer ==
  (Parsed /\ ~ValidTags(obs.file)) => Failed("Not a valid WAV file")

\* the offset of the first data chunk met by a scan from off in steps of
\* 8 + chunkSize, or 0 when the bytes are exhausted first
RECURSIVE FirstData(_, _)
FirstData(buf, off) ==
  IF ~InView(buf, off, 8) THEN 0
  ELSE IF fourCC(buf, off) = DATA THEN off
  ELSE FirstData(buf, off + 8 + getUint32(buf, off + 4))

\* C22: with valid tags, a chunk sequence without a data chunk fails with
\* "No data chunk found" (or, for a format chunk that is not PCM, with the
\* format error); when there is a data chunk, the first one is the sample
\* source: the samples start 8 bytes after its offset and have its declared
\* length.
C22_DataChunkScan ==
  (Parsed /\ ValidTags(obs.file)) =>
    IF FirstData(obs.file, 12) = 0
    THEN Failed("No data chunk found") \/ Failed("Only PCM format is supported")
    ELSE obs.result.pc \in {"decoding", "returned"} =>
           /\ obs.result.dataOffset = FirstData(obs.file, 12) + 8
           /\ obs.result.dataSize = getUint32(obs.file, FirstData(obs.file, 12) + 4)

\* the offset of the first fmt chunk met by the same scan before a data
\* chunk, or 0
RECURSIVE FirstFmt(_, _)
FirstFmt(buf, off) ==
  IF ~InView(buf, off, 24) THEN 0
  ELSE IF fourCC(buf, off) = FMT THEN off
  ELSE IF fourCC(buf, off) = DATA THEN 0
  ELSE FirstFmt(buf, off + 8 + getUint32(buf, off + 4))
\* the format chunk declares a format other than PCM, or a width that is
\* not 8, 16, 24 or 32
Unsupported(buf) ==
  /\ ValidTags(buf)
  /\ FirstFmt(buf, 12) # 0
  /\ \/ getUint16(buf, FirstFmt(buf, 12) + 8) # 1
     \/ getUint16(buf, FirstFmt(buf, 12) + 22) \notin Widths

\* C23: a file whose format chunk declares a format code other than PCM, or
\* a bits-per-sample value outside 8, 16, 24, 32, fails with the format
\* error "Only PCM format is supported" (or, when it has no data chunk
\* either, with "No data chunk found"), and no audio is returned for it.
C23_UnsupportedFormatFails ==
  (Parsed /\ Unsupported(obs.file)) =>
    Failed("Only PCM format is supported") \/ Failed("No data chunk found")

Returned == obs.result.pc = "returned"
WellFormed == obs.about.kind = "pcm"

\* C24: a well-formed PCM file that holds N frames is decoded without an
\* error of the decoder's own; the audio returned for it has N samples, one
\* per frame, N is the data length divided by (bytes per sample * channels),
\* and its duration is N / sampleRate.
C24_OneSamplePerFrame ==
  (WellFormed /\ Parsed) =>
    LET N == Len(obs.about.frames)
        a == obs.result.audio
    IN /\ obs.result.pc = "failed" => obs.result.error = "Failed to decode audio file"
       /\ Returned =>
            /\ Len(a.samples) = N
            /\ 8 * obs.result.dataSize = N * obs.about.bits * obs.about.channels
            /\ a.sampleRate = obs.about.sampleRate
            /\ a.duration.num * a.sampleRate = N * a.duration.den
            /\ a.duration.den > 0
C24_Witness ==
  /\ WellFormed /\ Returned
  /\ Len(obs.about.frames) = 2 /\ obs.about.channels = 2 /\ obs.about.bits = 24
  /\ Len(obs.result.audio.samples) = 2

\* the arithmetic mean of the channel values q / 2^(w - 1) of a frame of one
\* or two channels
MeanOf(frame, w) ==
  Value(IF Len(frame) > 1 THEN frame[1] + frame[2] ELSE frame[1], w - 1 + (Len(frame) - 1))

Exact(v) == Norm(v.num, v.exp)

C26_DecodeExact ==
  (WellFormed /\ Returned /\ obs.about.channels = 1) =>
    \A i \in 1..Len(obs.about.frames) :
      obs.result.audio.samples[i] = Exact(Value(obs.about.frames[i][1], obs.about.bits - 1))

\* a duration num / den is positive; a positive number over 0 is Infinity
Positive(d) == d.num > 0 /\ d.den >= 0

\* C27: every audio the decoder returns has sampleRate > 0, and duration > 0
\* whenever it has samples.
C27_ReturnedAudioValid ==
  Returned =>
    /\ obs.result.audio.sampleRate > 0
    /\ Len(obs.result.audio.samples) > 0 => Positive(obs.result.audio.duration)

\* ------------------------------------------------------------ claims about the envelope alone (EnvelopeSpec)
Built == obs.pc \in {"built", "drawn"}
Sentinel == <<One, 0 - One>>
\* the samples of column i that are numbers, by the boundaries of the claim
NumbersOf(samples, W, i) ==
  {samples[j + 1] : j \in floorOffset(i, Len(samples), W)
                          ..(Min(floorOffset(i + 1, Len(samples), W), Len(samples)) - 1)} \ {NaN}
Least(S) == CHOOSE x \in S : \A y \in S : x <= y
Greatest(S) == CHOOSE x \in S : \A y \in S : x >= y

\* C28: column i of the envelope holds the least and the greatest of the
\* samples that are numbers with index from floor(i * samplesPerColumn) up
\* to, not including, min(floor((i + 1) * samplesPerColumn), n), the
\* boundaries computed in floating point; NaN samples are skipped; with as
\* many columns as samples, column i is (sample[i], sample[i]).
C28_ColumnMinMax ==
  Built =>
    \A i \in 0..(obs.displayWidth - 1) :
      /\ i < Len(obs.columns)
      /\ LET S == NumbersOf(obs.samples, obs.displayWidth, i)
         IN obs.columns[i + 1] = IF S = {} THEN Sentinel ELSE <<Least(S), Greatest(S)>>
      /\ (obs.displayWidth = Len(obs.samples) /\ obs.samples[i + 1] # NaN) =>
           obs.columns[i + 1] = <<obs.samples[i + 1], obs.samples[i + 1]>>
\* 15 samples in 4 columns, the second sample NaN, the first column built
\* from the numbers around it
C28_Witness ==
  /\ Built
  /\ Len(obs.samples) = MaxSamples /\ obs.displayWidth = 4
  /\ obs.samples[2] = NaN /\ obs.samples[1] # obs.samples[3]
  /\ obs.columns[1] = <<Min(obs.samples[1], obs.samples[3]), Max(obs.samples[1], obs.samples[3])>>

\* C29: the envelope has exactly displayWidth columns; every column whose
\* range of samples is empty or begins past the last sample, as every column
\* with index >= sampleCount does when displayWidth exceeds sampleCount, is
\* the pair (1, -1).
C29_WidthAndSentinel ==
  Built =>
    /\ Len(obs.columns) = obs.displayWidth
    /\ \A i \in 0..(obs.displayWidth - 1) :
         LET n == Len(obs.samples)
             start == floorOffset(i, n, obs.displayWidth)
             end == Min(floorOffset(i + 1, n, obs.displayWidth), n)
         IN (start >= n \/ end <= start \/ (obs.displayWidth > n /\ i >= n)) =>
              (i < Len(obs.columns) /\ obs.columns[i + 1] = Sentinel)
\* 3 samples in 16 columns: the last 13 columns are (1, -1), the first 3 not
C29_Witness ==
  /\ Built
  /\ Len(obs.samples) = 3 /\ obs.displayWidth = MaxColumns
  /\ NaN \notin {obs.samples[j] : j \in 1..3}
  /\ \A c \in 1..MaxColumns : (obs.columns[c] = Sentinel) = (c > 3)

\* C30: for every column whose pair is (1, -1) the renderer draws nothing:
\* no line is stroked in that column between the positions computed from
\* min = 1 and max = -1.
C30_SentinelNotDrawn ==
  obs.pc = "drawn" =>
    \A c \in 1..Len(obs.columns) :
      obs.columns[c] = Sentinel =>
        ~\E l \in 1..Len(obs.lines) : obs.lines[l].x = c - 1 /\ obs.lines[l].minY # obs.lines[l].maxY

\* ------------------------------------------------------------ a further claim about the decoder alone (ParserSpec)
\* C36: decoding is total: every buffer, whatever its length and its declared
\* sizes, ends in audio or in one of the decoder's own errors (bad container,
\* unsupported format, missing data chunk; or the platform's refusal to
\* decode); no read is made at an index outside the buffer.
C36_DecodeTotal ==
  Parsed =>
    \/ obs.result.pc \in {"decoding", "returned"}
    \/ obs.result.error \in {"Not a valid WAV file", "Only PCM format is supported",
                             "No data chunk found", "Failed to decode audio file"}

\* ------------------------------------------------------------ a further claim about the envelope alone (EnvelopeSpec)
\* C39: with no more columns than samples, the ranges of the columns
\* partition the sample indices: column 0 starts at 0, each column ends
\* where the next starts, and the last column ends at sampleCount.
C39_RangesPartition ==
  (Built /\ obs.displayWidth <= Len(obs.samples)) =>
    LET range(i) == sampleRange(obs.samples, obs.displayWidth, i)
    IN /\ range(0)[1] = 0
       /\ \A i \in 0..(obs.displayWidth - 2) : range(i)[2] = range(i + 1)[1]
       /\ range(obs.displayWidth - 1)[2] = Len(obs.samples)

\* ------------------------------------------------------------ a claim about the display width alone (WidthSpec)
\* the least whole number not below a / b
CeilDiv(a, b) == (a + b - 1) \div b
availableWidth == Max(1, obs.screenWidth - totalHorizontalSpace)

\* C31: the display width every consumer uses is
\* max(1, ceil(duration / 3600 * availableWidth)), a whole number >= 1; a
\* recording of 3600 seconds gets exactly the available width.
C31_DisplayWidthLaw ==
  \A c \in Consumers :
    obs.used[c] # NotUsed =>
      obs.used[c] = Max(1, CeilDiv(obs.duration * availableWidth, 3600))

\* ------------------------------------------------------------ a claim about the export alone (ExportSpec)
\* C32: the exported list has the length and the order of the session's tag
\* list, its k-th element is the k-th tag with start and end rounded to 4
\* decimal places, and exporting leaves the session unchanged.
C32_ExportRoundsInOrder ==
  /\ [](/\ Len(obs.exported) = Len(obs.from)
        /\ \A k \in 1..Len(obs.from) :
             /\ Len(obs.exported[k]) = 2
             /\ \A e \in 1..2 : LET t == obs.from[k][e]
                                IN obs.exported[k][e] = IF t % 4 = 3 THEN t \div 4 + 1 ELSE t \div 4)
  /\ [][obs' # obs => state' = state /\ (~obs'.alerted => obs'.from = state.tags)]_vars
\* two tags exported, one time rounded down and one rounded up, in order
C32_Witness ==
  /\ obs.from = <<<<1, 3>>, <<3, 5>>>>
  /\ obs.exported = <<<<0, 1>>, <<1, 1>>>>
  /\ state.tags = obs.from

\* C38: at most one poll-loop frame callback is pending at any time, and a
\* pending frame is the one animationFrameRef names; pause, and the effect
\* of a render that is paused or dragging, leave no frame pending, and a
\* play that starts no voice leaves none either.  Under ClockSpec.
C38_OnePendingFrame ==
  /\ Cardinality(PendingFrames) <= 1
  /\ PendingFrames \subseteq {clock.animationFrameRef}
  /\ obs.op[1] = "pause" => PendingFrames = {}
  /\ obs.op[1] = "props" /\ (~clock.isPlayingRef \/ clock.isDraggingRef) => PendingFrames = {}
  /\ obs.op[1] = "play" /\ obs.started = 0 => PendingFrames = {}
\* a frame ran and scheduled its successor
C38_Witness == obs.op[1] = "frame" /\ obs.time # <<>> /\ PendingFrames # {}

\* ------------------------------------------------------------ loading claims
\* C37: whenever a file is loaded the session's currentTime lies between 0
\* and the duration of the loaded file, and a position delivered through
\* onTimeUpdate is at most that duration.  Under LoadSpec.
C37_TimeWithinLoadedFile ==
  state.audioData # 0 =>
    /\ state.currentTime \in 0..Duration(state.audioData)
    /\ obs.time # <<>> => obs.time[1] <= Duration(state.audioData)

\* C33: after a successful file load the session's currentTime is 0 and
\* stays 0 until the user seeks or plays, also when the load completes
\* while the previous file is playing.  Under LoadSpec.
C33_ZeroAfterLoad == obs.fresh => state.currentTime = 0

\* ------------------------------------------------------------ ended events
\* the voice whose ended event is delivered by the step
Delivered(v) == hw.voice[v].st = "ended" /\ hw'.voice[v].st = "done"

\* C35: the ended notification of a voice that was stopped or replaced
\* affects only that voice: it leaves sourceNodeRef alone when it names a
\* newer voice, it leaves that voice's pending poll frame alone, and it
\* never changes the retained position pausedAtRef.
C35_StaleEndedIsLocal ==
  [][\A v \in VoiceIds :
       Delivered(v) /\ (hw.voice[v].cause = "stopped" \/ clock.sourceNodeRef # v) =>
         /\ clock'.pausedAtRef = clock.pausedAtRef
         /\ clock.sourceNodeRef \notin {0, v} =>
              /\ clock'.sourceNodeRef = clock.sourceNodeRef
              /\ \A i \in PendingFrames : hw'.frame[i].st = "pending"]_vars

\* ------------------------------------------------------------ fairness claims
\* the name ends in ".wav", in any letter case
EndsInWav(name) ==
  /\ Len(name) >= 4
  /\ name[Len(name) - 3] = "."
  /\ name[Len(name) - 2] \in {"w", "W"}
  /\ name[Len(name) - 1] \in {"a", "A"}
  /\ name[Len(name)] \in {"v", "V"}

\* C40: every FILE_LOAD_START is eventually followed by exactly one
\* FILE_LOAD_SUCCESS or FILE_LOAD_ERROR of the same load (loading is set
\* exactly while the load is pending, so it returns to false whether the
\* parse succeeds or fails), and selecting a file whose name does not end
\* in ".wav" dispatches nothing and starts no load.  Under FairLoadSpec.
C40_LoadCompletes ==
  /\ state.loading ~> ~state.loading
  /\ [](state.loading <=> host.load # 0)
  /\ [][/\ state'.loading # state.loading => host'.load # host.load
        /\ host.load # 0 /\ host'.load = 0 =>
             \/ state' = FileLoadSuccess(state, host.load, host.load)
             \/ state' = FileLoadError(state)
        /\ obs'.selected # <<>> /\ ~EndsInWav(obs'.selected) =>
             state' = state /\ host' = host]_vars
\* a load that was started has completed with FILE_LOAD_SUCCESS
C40_Witness == obs.fresh /\ ~state.loading /\ host.load = 0 /\ state.audioData # 0

\* the session shows the end of the loaded track
AtEnd == ~state.isPlaying /\ state.currentTime = Duration(state.audioData)

\* C34: a voice that is started, with no user event and no load completion
\* after it, is eventually followed by a session that is not playing and
\* whose currentTime is the duration.  Under FairPlaySpec.
C34_PlaysToTheEnd == obs.started # 0 ~> (~obs.undisturbed \/ AtEnd)

====
